---- MODULE Spec2Model ----
(***************************************************************************)
(* findajob: the search pipeline task (backend/app/tasks/search.py) and    *)
(* the Google LLM client (backend/app/core/llm/google.py).                 *)
(*                                                                         *)
(* One run of run_search_pipeline is modelled as a sequential process; a   *)
(* step is the code between two network calls (crawl, LLM provider call,   *)
(* webhook POST) together with the answer of that call, which is an input. *)
(*                                                                         *)
(* Further components, each with a specification of its own over the same  *)
(* variables: the LinkedIn spider                                          *)
(* (backend/app/core/spiders/linkedin_api_spider.py) under Scrapy's        *)
(* scheduler, the tool loop of GoogleAIProvider.agent with the history     *)
(* left out, and the crawl task of backend/celery_tasks.py.                *)
(***************************************************************************)
EXTENDS Integers, Sequences, FiniteSets, TLC

\* ------------------------------------------------------------------ bounds
MaxJobs == 2

MaxCalls == 2

\* generate_content calls made on one client
MaxRequests == 3

\* calls of OllamaProvider.generate on one provider
MaxGenerates == 2

\* the longest list of skills or industries a scoring tool is called with
MaxSkills == 2

\* ------------------------------------------------------------------ state
VARIABLES
    broker,        \* pipeline tasks enqueued by search_jobs, not yet started
    pc,            \* position of the run inside run_search_pipeline
    provider,      \* class of SearchPipeline.provider once constructed
    crawled,       \* the list returned by SearchPipeline._crawl
    idx,           \* 1-based position of the for loop of SearchPipeline.run
    history,       \* GoogleAIProvider.__history
    response,      \* local `response` of GoogleAIProvider.agent
    gen_response,  \* local `response` of GoogleAIProvider.generate
    regens,        \* generate calls issued from inside the current agent call
    job_summary,   \* local of _process_job_with_ai
    cover_letter,  \* local of _process_job_with_ai
    jobs,          \* local list `jobs` of SearchPipeline.run
    didx,          \* 1-based position of the for loop of _handle_search_task
    posts,         \* webhook requests issued so far, with their answers
    error          \* the exception that ended the task, if any

pipeline_vars == <<broker, pc, provider, crawled, idx, history, response,
                   gen_response, regens, job_summary, cover_letter, jobs, didx,
                   posts, error>>

VARIABLES
    spider,        \* life of the LinkedInSpider: "new", "open", "closed"
    spider_config, \* SpiderConfig.max_jobs, the argument of __init__
    max_jobs,      \* LinkedInSpider.max_jobs
    jobs_found,    \* LinkedInSpider.__jobs_found
    params_start,  \* LinkedInSpider.__params['start']
    scheduler,     \* requests Scrapy's scheduler holds, in the order yielded
    seen,          \* fingerprints Scrapy's duplicate filter has recorded
    items,         \* items scraped so far, in item_scraped order
    search_page    \* the latest response handed to parse_search

spider_vars == <<spider, spider_config, max_jobs, jobs_found, params_start,
                 scheduler, seen, items, search_page>>

VARIABLES
    detail_page,   \* a response handed to parse_job
    parsed         \* what parse_job made of it

parse_vars == <<detail_page, parsed>>

VARIABLES
    loop_pc,       \* position inside one call of GoogleAIProvider.agent
    loop_response, \* local `response` of that call
    loop_rounds    \* passes of its while loop completed, counted up to MaxCalls

loop_vars == <<loop_pc, loop_response, loop_rounds>>

VARIABLES
    task_pc,       \* position inside crawl_jobs of celery_tasks.py
    task_state,    \* the Celery state of that task
    task_meta,     \* meta["status"] of its latest update_state
    task_result,   \* its return value, NoResult while it has none
    task_max_jobs, \* its max_jobs argument
    returncode,    \* how subprocess.run of scrapy ended, NotRun before
    jobs_data,     \* local jobs_data
    db_jobs        \* rows of the table `jobs` that are committed

task_vars == <<task_pc, task_state, task_meta, task_result, task_max_jobs, returncode,
               jobs_data, db_jobs>>

\* celery_tasks.process_jobs_with_ai
VARIABLES ai_pc, ai_state, ai_meta, ai_result, ai_jobs, ai_i,
          processed_count, failed_count, processed_jobs

ai_vars == <<ai_pc, ai_state, ai_meta, ai_result, ai_jobs, ai_i,
             processed_count, failed_count, processed_jobs>>

\* the scoring tools and the AlignmentScore schema, applied to one input
VARIABLES score_call, candidate_list, required_list, scores, score_result

score_vars == <<score_call, candidate_list, required_list, scores, score_result>>

\* GoogleAIProvider on its own, under any sequence of calls
VARIABLES client_pc, client_history, client_response, client_return, request, requests_made,
          tools_set, callable_tools_set

client_vars == <<client_pc, client_history, client_response, client_return,
                 request, requests_made, tools_set, callable_tools_set>>

\* OllamaProvider and the requests it sends to the server
VARIABLES ollama_pc, ollama_model, server_models, wire, ollama_return

ollama_vars == <<ollama_pc, ollama_model, server_models, wire, ollama_return>>

\* main.py: one run tracked in pipeline_tasks, the result backend, the monitor
VARIABLES pipeline_task, pipeline_result, service1_result, continue_results,
          processor_results, monitor_pc

pipe_vars == <<pipeline_task, pipeline_result, service1_result, continue_results,
               processor_results, monitor_pc>>

\* webapp/backend.py: the global crawling_status, the workflow threads, the
\* answer to the last request
VARIABLES crawling_status, workflows, web_response

web_vars == <<crawling_status, workflows, web_response>>

\* docker_service_1.py / docker_service_2.py: the task_queue rows of one
\* service, its pollers, the number of times each row was processed
VARIABLES task_queue, poller_pc, poller_task, executions

queue_vars == <<task_queue, poller_pc, poller_task, executions>>

\* scrapy item pipeline: the jobs table, the job_ids process_item was called
\* with, the items it returned, the outcome of the last call
VARIABLES jobs_table, job_ids_seen, accepted, item_outcome

store_vars == <<jobs_table, job_ids_seen, accepted, item_outcome>>

vars == <<pipeline_vars, spider_vars, parse_vars, loop_vars, task_vars, ai_vars, score_vars,
          client_vars, ollama_vars, pipe_vars, web_vars, queue_vars, store_vars>>

\* ------------------------------------------------------------- plain values
None == "None"

NoError == [kind |-> "none", stage |-> "none", job |-> 0]

Raise(kind, stage, job) == [kind |-> kind, stage |-> stage, job |-> job]

JobIds == 1 .. MaxJobs

\* A crawled item: its job_id, and whether the dict carries every field that
\* CrawledJobResult requires as a str.
CrawledJobResult == [job_id : JobIds, complete : BOOLEAN]

RECURSIVE SeqsUpTo(_, _)
SeqsUpTo(S, n) ==
    IF n = 0 THEN {<< >>}
    ELSE LET shorter == SeqsUpTo(S, n - 1)
         IN  shorter \cup {Append(s, x) : s \in {t \in shorter : Len(t) = n - 1}, x \in S}

Distinct(js) == \A i, j \in 1 .. Len(js) : i # j => js[i].job_id # js[j].job_id

\* parse_job builds every item with the same keys
Alike(js) == \A i, j \in 1 .. Len(js) : js[i].complete = js[j].complete

\* Lists of items the crawl can hand over: scrapy's duplicate filter drops a
\* second request for the same job URL, so job ids are distinct.
CrawlResults == {js \in SeqsUpTo(CrawledJobResult, MaxJobs) : Distinct(js) /\ Alike(js)}

\* ------------------------------------------------------------------- text
\* A text is a sequence of lines; a line has a body and may carry surrounding
\* blanks.  A line with an empty body is blank.
Line(body) == [body |-> body, pad |-> FALSE]

Padded(body) == [body |-> body, pad |-> TRUE]

\* str.strip() of one line
Strip(l) == l.body

\* Part(text=...), Part(function_call=...), Part.from_function_response(...)
NoCall == [name |-> "", args |-> ""]

TextPart(t) == [kind |-> "text", text |-> t, call |-> NoCall, result |-> ""]

CallPart(c) == [kind |-> "function_call", text |-> << >>, call |-> c, result |-> ""]

ResponsePart(n, r) ==
    [kind |-> "function_response", text |-> << >>, call |-> [name |-> n, args |-> ""],
     result |-> r]

Content(role, parts) == [role |-> role, parts |-> parts]

\* [Part(text=l.strip()) for l in content.split("\n") if len(l.strip()) > 0]
RECURSIVE TextParts(_)
TextParts(text) ==
    IF text = << >> THEN << >>
    ELSE LET rest == TextParts(Tail(text))
         IN  IF Strip(Head(text)) # ""
             THEN <<TextPart(<<Line(Strip(Head(text)))>>)>> \o rest
             ELSE rest

\* GoogleAIProvider._update_history with a str
UpdateHistoryText(h, role, text) == Append(h, Content(role, TextParts(text)))

\* GoogleAIProvider._update_history with a list of Part
UpdateHistoryParts(h, role, parts) == Append(h, Content(role, parts))

\* a clear_history that leaves the list as it is
HistoryKept(h) == h

\* GoogleAIProvider.clear_history
ClearedHistory(h) == << >>

\* ---------------------------------------------------------------- schemas
JobAiSummary == "JobAiSummary"

JobAiCoverLetter == "JobAiCoverLetter"

\* The document a schema accepts, in the normal form model_dump_json writes.
Document(schema) == IF schema = JobAiSummary THEN "{summary}" ELSE "{cover}"

\* JSON ignores blanks around the document: the text is one document when its
\* non-blank content is exactly that document.
RECURSIVE Bodies(_)
Bodies(text) ==
    IF text = << >> THEN << >>
    ELSE IF Strip(Head(text)) # "" THEN <<Strip(Head(text))>> \o Bodies(Tail(text))
         ELSE Bodies(Tail(text))

\* format.model_validate_json(text) does not raise ValidationError
Validates(text, schema) == Bodies(text) = <<Document(schema)>>

\* format.model_validate_json(text).model_dump_json(), None on ValidationError
ValidateAndDump(text, schema) ==
    IF Validates(text, schema) THEN Document(schema) ELSE None

\* ---------------------------------------------------------------- prompts
JobSummaryPrompt(job) ==
    <<Line("TASK: Create a concise job summary"), Line(""),
      Line("JSON JOB DATA"), Line(ToString(job.job_id)), Line("")>>

CoverLetterPrompt ==
    <<Line("TASK: Create a compelling, personalized cover letter"), Line("")>>

RegeneratePrompt ==
    <<Line("Regenerate job summary in JSON format, strictly follow the schema")>>

\* ------------------------------------------------------------------ tools
\* callable_tools (two of the six bindings are modelled)
CallableTools == {"calculate_month_between", "calculate_skills_score"}

\* Argument sets the model may send: two the callable accepts, one on which it
\* raises (a malformed date, an empty job_skills list, a wrong keyword).
ToolArgs == {"x", "y", "bad"}

\* Requests the model may make: a tool twice with different arguments, another
\* tool, arguments a callable rejects, a name that is not bound.
FunctionCalls ==
    { [name |-> "calculate_month_between", args |-> "x"],
      [name |-> "calculate_month_between", args |-> "y"],
      [name |-> "calculate_month_between", args |-> "bad"],
      [name |-> "calculate_skills_score", args |-> "x"],
      [name |-> "no_such_tool", args |-> "x"] }

\* self.callable_tools[tool.name](**tool.args) raises
ToolRaises(c) == c.name \notin CallableTools \/ c.args = "bad"

\* the exception it raises: the dict lookup fails on an unbound name,
\* calculate_month_between re-raises strptime's ValueError on a malformed
\* date, calculate_skills_score divides by len(job_skills)
ToolErrorKind(c) ==
    IF c.name \notin CallableTools THEN "KeyError"
    ELSE IF c.name = "calculate_month_between" THEN "ValueError"
    ELSE "ZeroDivisionError"

\* the value the callable returns on these arguments
ToolResult(c) == c.name \o "(" \o c.args \o ")"

\* tools_response[name] = value on a dict kept as a list of items: a key
\* already present keeps its place and takes the new value.
DictSet(d, k, v) ==
    IF \E i \in 1 .. Len(d) : d[i].key = k
    THEN [i \in 1 .. Len(d) |-> IF d[i].key = k THEN [key |-> k, value |-> v] ELSE d[i]]
    ELSE Append(d, [key |-> k, value |-> v])

\* the for loop of agent() over use_tools, when no callable raises
RECURSIVE ToolsResponse(_, _)
ToolsResponse(d, calls) ==
    IF calls = << >> THEN d
    ELSE ToolsResponse(DictSet(d, Head(calls).name, ToolResult(Head(calls))), Tail(calls))

\* [Part.from_function_response(name=n, response={"result": r}) for n, r in items()]
FunctionResponseParts(d) == [i \in 1 .. Len(d) |-> ResponsePart(d[i].key, d[i].value)]

FirstRaising(calls) ==
    calls[CHOOSE i \in 1 .. Len(calls) :
            /\ ToolRaises(calls[i])
            /\ \A j \in 1 .. (i - 1) : ~ToolRaises(calls[j])]

\* ------------------------------------------------------ provider responses
NoResponse == [kind |-> "none", calls |-> << >>, text |-> << >>]

TransportError == [kind |-> "raise", calls |-> << >>, text |-> << >>]

ReplyTexts ==
    { <<Line("{summary}")>>,
      <<Line(""), Padded("{summary}"), Line("")>>,
      <<Line("{cover}")>>,
      <<Line("{bad")>> }

TextResponses == {[kind |-> "reply", calls |-> << >>, text |-> t] : t \in ReplyTexts}

\* answers that request n tool calls at most
ToolResponses(n) ==
    {[kind |-> "reply", calls |-> cs, text |-> << >>] :
        cs \in (SeqsUpTo(FunctionCalls, n) \ {<< >>})}

\* response.candidates[0].content.parts[0].function_call
UseTools(r) == r.calls

\* response.candidates[0].content.parts
ResponseParts(r) ==
    IF r.calls # << >> THEN [i \in 1 .. Len(r.calls) |-> CallPart(r.calls[i])]
    ELSE <<TextPart(r.text)>>

RECURSIVE SumLen(_)
SumLen(ss) == IF ss = << >> THEN 0 ELSE Len(Head(ss)) + SumLen(Tail(ss))

\* tool calls the model has requested so far in the current agent call
CallsRequested(h) ==
    SumLen([i \in 1 .. Len(h) |->
              SelectSeq(h[i].parts, LAMBDA p : p.kind = "function_call")])

\* answers generate_content can give to agent(): the model requests at most
\* MaxCalls tool calls in one agent call
AgentResponses(h) ==
    {TransportError} \cup TextResponses \cup ToolResponses(MaxCalls - CallsRequested(h))

GenerateResponses == {TransportError} \cup TextResponses

\* ------------------------------------------------------------ the pipeline
InitPipeline ==
    /\ broker = << >>
    /\ pc = "submit"
    /\ provider = "none"
    /\ crawled = << >>
    /\ idx = 1
    /\ history = << >>
    /\ response = NoResponse
    /\ gen_response = NoResponse
    /\ regens = 0
    /\ job_summary = "unset"
    /\ cover_letter = "unset"
    /\ jobs = << >>
    /\ didx = 1
    /\ posts = << >>
    /\ error = NoError

\* no response parsed yet
NoPage == [kind |-> "none"]

\* the spider before LinkedInSpider.__init__
InitSpider ==
    /\ spider = "new"
    /\ spider_config = 0
    /\ max_jobs = 0
    /\ jobs_found = 0
    /\ params_start = 0
    /\ scheduler = << >>
    /\ seen = {}
    /\ items = << >>
    /\ search_page = NoPage

\* no call of parse_job
InitParse ==
    /\ detail_page = NoPage
    /\ parsed = NoPage

\* the client before a call of agent()
InitLoop ==
    /\ loop_pc = "idle"
    /\ loop_response = NoResponse
    /\ loop_rounds = 0

\* the task has returned nothing: it has not ended, or it has raised
NoResult == [status |-> None, jobs_found |-> 0]

\* subprocess.run has not been called
NotRun == [kind |-> "none", code |-> 0]

\* crawl_jobs queued, nothing stored
InitTask ==
    /\ task_pc = "queued"
    /\ task_state = "PENDING"
    /\ task_meta = ""
    /\ task_result = NoResult
    /\ task_max_jobs = 0
    /\ returncode = NotRun
    /\ jobs_data = << >>
    /\ db_jobs = << >>

\* process_jobs_with_ai has not started
NoMeta == [status |-> "", current_job |-> 0]

NoAIResult == [status |-> None, jobs_processed |-> 0, jobs_failed |-> 0, total_jobs |-> 0]

InitAI ==
    /\ ai_pc = "queued"
    /\ ai_state = "PENDING"
    /\ ai_meta = NoMeta
    /\ ai_result = NoAIResult
    /\ ai_jobs = << >>
    /\ ai_i = 0
    /\ processed_count = 0
    /\ failed_count = 0
    /\ processed_jobs = << >>

\* no scores: the empty dict
NoScores == [k \in {} |-> 0]

\* no tool was called
NoScore == [kind |-> "none", num |-> 0, den |-> 1, error |-> ""]

InitScore ==
    /\ score_call = "none"
    /\ candidate_list = << >>
    /\ required_list = << >>
    /\ scores = NoScores
    /\ score_result = NoScore

\* no generate_content call was made
NoRequest ==
    [contents |-> << >>, system_instruction |-> [role |-> "none", parts |-> << >>],
     tools |-> {}]

\* the provider as constructed, before tools and callable_tools are assigned
InitProvider ==
    /\ client_pc = "idle"
    /\ client_history = << >>
    /\ client_response = NoResponse
    /\ client_return = "unset"
    /\ request = NoRequest
    /\ requests_made = 0

\* the provider as SearchPipeline.__init__ leaves it
InitClient ==
    /\ InitProvider
    /\ tools_set = TRUE
    /\ callable_tools_set = TRUE

InitOllama ==
    /\ ollama_pc = "new"
    /\ ollama_model = ""
    /\ server_models = {}
    /\ wire = << >>
    /\ ollama_return = "unset"

\* run_id not in pipeline_tasks
NoPipelineTask ==
    [status |-> "none", service1_task_id |-> 0, service2_task_id |-> 0]

InitPipe ==
    /\ pipeline_task = NoPipelineTask
    /\ pipeline_result = "none"
    /\ service1_result = "none"
    /\ continue_results = << >>
    /\ processor_results = << >>
    /\ monitor_pc = "none"

\* the crawling_status of module load and of reset_workflow: no 'results' key
\* (results = 0); the results of workflow t are written t
IdleStatus ==
    [is_running |-> FALSE, jobs_found |-> 0, current_stage |-> "idle",
     pipeline_stage |-> 0, results |-> 0]

NoWebResponse == [code |-> 0, jobs |-> 0, total |-> 0]

InitWeb ==
    /\ crawling_status = IdleStatus
    /\ workflows = << >>
    /\ web_response = NoWebResponse

MaxWorkers == 2

Pollers == 1..MaxWorkers

InitQueue ==
    /\ task_queue = << >>
    /\ poller_pc = [w \in Pollers |-> "poll"]
    /\ poller_task = [w \in Pollers |-> 0]
    /\ executions = << >>

\* open_spider: the table exists and holds what earlier runs stored; here none
InitStore ==
    /\ jobs_table = << >>
    /\ job_ids_seen = {}
    /\ accepted = << >>
    /\ item_outcome = "none"

Init ==
    /\ InitPipeline /\ InitSpider /\ InitParse /\ InitLoop /\ InitTask /\ InitAI /\ InitScore
    /\ InitClient /\ InitOllama /\ InitPipe /\ InitWeb /\ InitQueue /\ InitStore

\* an exception leaves run() and run_search_pipeline: the task ends FAILURE
Fail(kind, stage, job) ==
    /\ pc' = "failed"
    /\ error' = Raise(kind, stage, job)

\* str.lower() on the provider names a request may carry
Lower(p) == IF p \in {"google", "Google", "GOOGLE"} THEN "google"
            ELSE IF p \in {"ollama", "Ollama"} THEN "ollama"
            ELSE p

ProviderNames == {"google", "Google", "ollama", "openai"}

\* api_key values a request may carry; None stands for a request without the field
ApiKeys == {None, "", "key"}

\* SearchTaskRequest: pydantic accepts the body when every required field
\* is there with its type; ai_provider is any str, api_key any str
SearchTaskRequestValidates(p, api_key) == api_key # None

\* the arguments of the pipeline task search_jobs enqueues
TaskArgs(p, api_key) == [ai_provider |-> p, api_key |-> api_key]

\* POST /search: FastAPI validates the body against SearchTaskRequest and
\* answers 422 when it does not validate; search_jobs enqueues the task and
\* answers with its id and status
search_jobs(p, api_key) ==
    /\ pc = "submit"
    /\ IF SearchTaskRequestValidates(p, api_key)
       THEN /\ broker' = Append(broker, TaskArgs(p, api_key))
            /\ pc' = "pending"
       ELSE /\ broker' = broker
            /\ pc' = "rejected"
    /\ UNCHANGED <<provider, crawled, idx, history, response, gen_response, regens,
                   job_summary, cover_letter, jobs, didx, posts, error>>
    /\ UNCHANGED <<spider_vars, parse_vars, loop_vars, task_vars, ai_vars, score_vars, client_vars, ollama_vars, pipe_vars, web_vars, queue_vars, store_vars>>

\* SearchPipeline.__init__: GoogleAIProvider needs an api key; OllamaProvider
\* leaves clear_history and agent abstract and cannot be instantiated.
Construct(p, api_key) ==
    /\ pc = "pending"
    /\ broker # << >>
    /\ Head(broker) = TaskArgs(p, api_key)
    /\ broker' = Tail(broker)
    /\ IF Lower(p) = "google" /\ api_key # ""
       THEN /\ provider' = "google"
            /\ pc' = "crawl"
            /\ error' = error
       ELSE /\ provider' = provider
            /\ Fail(IF Lower(p) = "ollama" THEN "TypeError" ELSE "ValueError", "construct", 0)
    /\ UNCHANGED <<crawled, idx, history, response, gen_response, regens,
                   job_summary, cover_letter, jobs, didx, posts>>
    /\ UNCHANGED <<spider_vars, parse_vars, loop_vars, task_vars, ai_vars, score_vars, client_vars, ollama_vars, pipe_vars, web_vars, queue_vars, store_vars>>

\* SearchPipeline._crawl: the items scraped by the spider, in signal order
Crawl(js) ==
    /\ pc = "crawl"
    /\ crawled' = js
    /\ idx' = 1
    /\ pc' = "loop"
    /\ UNCHANGED <<provider, history, response, gen_response, regens,
                   job_summary, cover_letter, jobs, didx, posts, error>>
    /\ UNCHANGED <<broker, spider_vars, parse_vars, loop_vars, task_vars, ai_vars, score_vars, client_vars, ollama_vars, pipe_vars, web_vars, queue_vars, store_vars>>

\* run(): next job of the for loop, self.provider.clear_history(); the call
\* of _process_job_with_ai that follows starts with fresh locals
ClearHistory ==
    /\ pc = "loop"
    /\ idx <= Len(crawled)
    /\ history' = ClearedHistory(history)
    /\ job_summary' = "unset"
    /\ cover_letter' = "unset"
    /\ regens' = 0
    /\ pc' = "agent"
    /\ UNCHANGED <<provider, crawled, idx, response, gen_response, jobs, didx, posts, error>>
    /\ UNCHANGED <<broker, spider_vars, parse_vars, loop_vars, task_vars, ai_vars, score_vars, client_vars, ollama_vars, pipe_vars, web_vars, queue_vars, store_vars>>

\* agent(), from a provider answer r on: while use_tools / final validation
AgentContinue(h, r) ==
    /\ response' = r
    /\ IF UseTools(r) # << >>
       THEN /\ history' = h
            /\ pc' = "tools"
            /\ job_summary' = job_summary
       ELSE /\ history' = UpdateHistoryParts(h, "model", ResponseParts(r))
            /\ IF Validates(r.text, JobAiSummary)
               THEN /\ job_summary' = ValidateAndDump(r.text, JobAiSummary)
                    /\ pc' = "cover"
               ELSE /\ job_summary' = job_summary
                    /\ pc' = "regen"
    /\ error' = error

\* _process_job_with_ai up to the first answer of agent(job_summary_prompt)
AgentCall(r) ==
    /\ pc = "agent"
    /\ r \in AgentResponses(history)
    /\ LET h == UpdateHistoryText(history, "user", JobSummaryPrompt(crawled[idx]))
       IN  IF r = TransportError
           THEN /\ history' = h
                /\ Fail("LLMTransportError", "enriching", crawled[idx].job_id)
                /\ UNCHANGED <<response, job_summary>>
           ELSE AgentContinue(h, r)
    /\ UNCHANGED <<provider, crawled, idx, gen_response, regens, cover_letter,
                   jobs, didx, posts>>
    /\ UNCHANGED <<broker, spider_vars, parse_vars, loop_vars, task_vars, ai_vars, score_vars, client_vars, ollama_vars, pipe_vars, web_vars, queue_vars, store_vars>>

\* a callable of this round of tool calls raises
DispatchRaises(calls) == \E i \in 1 .. Len(calls) : ToolRaises(calls[i])

\* agent(): one pass of the while loop in which a callable raises: the calls
\* are dispatched in turn and the first exception ends agent()
ToolRoundRaises ==
    /\ pc = "tools"
    /\ DispatchRaises(UseTools(response))
    /\ history' = UpdateHistoryParts(history, "model", ResponseParts(response))
    /\ Fail(ToolErrorKind(FirstRaising(UseTools(response))), "enriching",
            crawled[idx].job_id)
    /\ UNCHANGED <<provider, crawled, idx, response, gen_response, regens,
                   job_summary, cover_letter, jobs, didx, posts>>
    /\ UNCHANGED <<broker, spider_vars, parse_vars, loop_vars, task_vars, ai_vars, score_vars, client_vars, ollama_vars, pipe_vars, web_vars, queue_vars, store_vars>>

\* agent(): one pass of the while loop, up to the provider's next answer r
ToolRound(r) ==
    /\ pc = "tools"
    /\ ~DispatchRaises(UseTools(response))
    /\ LET h1 == UpdateHistoryParts(history, "model", ResponseParts(response))
           h2 == UpdateHistoryParts(h1, "function_response",
                    FunctionResponseParts(ToolsResponse(<< >>, UseTools(response))))
       IN  /\ r \in AgentResponses(h2)
           /\ IF r = TransportError
              THEN /\ history' = h2
                   /\ Fail("LLMTransportError", "enriching", crawled[idx].job_id)
                   /\ UNCHANGED <<response, job_summary>>
              ELSE AgentContinue(h2, r)
    /\ UNCHANGED <<provider, crawled, idx, gen_response, regens, cover_letter,
                   jobs, didx, posts>>
    /\ UNCHANGED <<broker, spider_vars, parse_vars, loop_vars, task_vars, ai_vars, score_vars, client_vars, ollama_vars, pipe_vars, web_vars, queue_vars, store_vars>>

\* a generate() that does not record the model's reply
GenerateHistoryNoReply(h, prompt, r) == UpdateHistoryText(h, "user", prompt)

\* a generate() that starts from a cleared history
GenerateHistoryCleared(h, prompt, r) ==
    IF r = TransportError THEN UpdateHistoryText(<< >>, "user", prompt)
    ELSE UpdateHistoryText(UpdateHistoryText(<< >>, "user", prompt), "model", r.text)

\* GoogleAIProvider.generate: the history after the call that got answer r
GenerateHistory(h, prompt, r) ==
    IF r = TransportError THEN UpdateHistoryText(h, "user", prompt)
    ELSE UpdateHistoryText(UpdateHistoryText(h, "user", prompt), "model", r.text)

\* GoogleAIProvider.generate: its return value on answer r
GenerateReturn(r, schema) == ValidateAndDump(r.text, schema)

\* an agent() that regenerates again while the regeneration returns None
RegenerateUntilValid(ret) == IF ret = None THEN "regen" ELSE "cover"

\* agent(): where the call goes once the regeneration has returned ret
AfterRegenerate(ret) == "cover"

\* agent(): the except branch, return self.generate("Regenerate ...", format)
Regenerate(r) ==
    /\ pc = "regen"
    /\ r \in GenerateResponses
    /\ regens' = regens + 1
    /\ history' = GenerateHistory(history, RegeneratePrompt, r)
    /\ IF r = TransportError
       THEN /\ Fail("LLMTransportError", "enriching", crawled[idx].job_id)
            /\ UNCHANGED <<gen_response, job_summary>>
       ELSE /\ gen_response' = r
            /\ job_summary' = GenerateReturn(r, JobAiSummary)
            /\ pc' = AfterRegenerate(GenerateReturn(r, JobAiSummary))
            /\ error' = error
    /\ UNCHANGED <<provider, crawled, idx, response, cover_letter, jobs, didx, posts>>
    /\ UNCHANGED <<broker, spider_vars, parse_vars, loop_vars, task_vars, ai_vars, score_vars, client_vars, ollama_vars, pipe_vars, web_vars, queue_vars, store_vars>>

\* AIProcessedJobResult(**job, job_summary=..., cover_letter=...) validates:
\* every CrawledJobResult field is there and both AI fields are str
ComposeValidates(job, summary, letter) ==
    job.complete /\ summary # None /\ letter # None

\* AIProcessedJobResult(...).model_dump(mode="json")
AIProcessedJobResult(job, summary, letter) ==
    [job_id |-> job.job_id, job_summary |-> summary, cover_letter |-> letter]

\* _process_job_with_ai from generate(cover_letter_prompt) to its return, and
\* jobs.append in run()
CoverLetter(r) ==
    /\ pc = "cover"
    /\ r \in GenerateResponses
    /\ history' = GenerateHistory(history, CoverLetterPrompt, r)
    /\ IF r = TransportError
       THEN /\ Fail("LLMTransportError", "enriching", crawled[idx].job_id)
            /\ UNCHANGED <<gen_response, cover_letter, jobs, idx>>
       ELSE LET letter == GenerateReturn(r, JobAiCoverLetter)
            IN  /\ gen_response' = r
                /\ cover_letter' = letter
                /\ IF ComposeValidates(crawled[idx], job_summary, letter)
                   THEN /\ jobs' = Append(jobs,
                                 AIProcessedJobResult(crawled[idx], job_summary, letter))
                        /\ idx' = idx + 1
                        /\ pc' = "loop"
                        /\ error' = error
                   ELSE /\ Fail("ValidationError", "enriching", crawled[idx].job_id)
                        /\ UNCHANGED <<jobs, idx>>
    /\ UNCHANGED <<provider, crawled, response, regens, job_summary, didx, posts>>
    /\ UNCHANGED <<broker, spider_vars, parse_vars, loop_vars, task_vars, ai_vars, score_vars, client_vars, ollama_vars, pipe_vars, web_vars, queue_vars, store_vars>>

\* a run() that hands the jobs enriched so far to _handle_search_task before
\* the for loop is exhausted
StartDeliveryEarly ==
    /\ pc = "loop"
    /\ didx' = 1
    /\ pc' = IF jobs = << >> THEN "done" ELSE "deliver"
    /\ UNCHANGED <<provider, crawled, idx, history, response, gen_response, regens,
                   job_summary, cover_letter, jobs, posts, error>>
    /\ UNCHANGED <<broker, spider_vars, parse_vars, loop_vars, task_vars, ai_vars, score_vars,
                   client_vars, ollama_vars, pipe_vars, web_vars, queue_vars, store_vars>>

\* run(): the for loop is exhausted, _handle_search_task(jobs) starts
StartDelivery ==
    /\ pc = "loop"
    /\ idx > Len(crawled)
    /\ didx' = 1
    /\ pc' = IF jobs = << >> THEN "done" ELSE "deliver"
    /\ UNCHANGED <<provider, crawled, idx, history, response, gen_response, regens,
                   job_summary, cover_letter, jobs, posts, error>>
    /\ UNCHANGED <<broker, spider_vars, parse_vars, loop_vars, task_vars, ai_vars, score_vars, client_vars, ollama_vars, pipe_vars, web_vars, queue_vars, store_vars>>

\* answers of the webhook
StatusCodes == {200, 404, 500}

\* Response.raise_for_status raises HTTPError
RaisesForStatus(status) == status >= 400 /\ status < 600

\* the loop of _handle_search_task walking the list from its end
NextToPostReversed(js, i) == js[Len(js) + 1 - i]

\* the job the loop of _handle_search_task posts at position i
NextToPost(js, i) == js[i]

\* _handle_search_task: one pass of the loop, requests.post and raise_for_status
Post(status) ==
    /\ pc = "deliver"
    /\ LET job == NextToPost(jobs, didx)
       IN  /\ posts' = Append(posts, [job_id |-> job.job_id, status |-> status])
           /\ IF RaisesForStatus(status)
              THEN /\ Fail("HTTPError", "delivering", job.job_id)
                   /\ didx' = didx
              ELSE /\ didx' = didx + 1
                   /\ pc' = IF didx = Len(jobs) THEN "done" ELSE "deliver"
                   /\ error' = error
    /\ UNCHANGED <<provider, crawled, idx, history, response, gen_response, regens,
                   job_summary, cover_letter, jobs>>
    /\ UNCHANGED <<broker, spider_vars, parse_vars, loop_vars, task_vars, ai_vars, score_vars, client_vars, ollama_vars, pipe_vars, web_vars, queue_vars, store_vars>>

Next ==
    \/ \E p \in ProviderNames, k \in ApiKeys : search_jobs(p, k)
    \/ \E p \in ProviderNames, k \in ApiKeys : Construct(p, k)
    \/ \E js \in CrawlResults : Crawl(js)
    \/ ClearHistory
    \/ \E r \in AgentResponses(<< >>) : AgentCall(r)
    \/ ToolRoundRaises
    \/ \E r \in AgentResponses(<< >>) : ToolRound(r)
    \/ \E r \in GenerateResponses : Regenerate(r)
    \/ \E r \in GenerateResponses : CoverLetter(r)
    \/ StartDelivery
    \/ \E s \in StatusCodes : Post(s)

Spec == Init /\ [][Next]_vars

\* ------------------------------------------------------------ observations
Terminated == pc \in {"done", "failed"}

\* the task ended SUCCESS
Succeeded == pc = "done"

\* 2xx
Acknowledged(status) == status >= 200 /\ status < 300

\* some POST of this run carried the job
Posted(id) == \E i \in 1 .. Len(posts) : posts[i].job_id = id

\* number of POSTs of this run that carried the job
Attempts(id) == Cardinality({i \in 1 .. Len(posts) : posts[i].job_id = id})

\* position at which the crawl yielded the job
CrawlPosition(id) == CHOOSE i \in 1 .. Len(crawled) : crawled[i].job_id = id

\* the run got as far as _handle_search_task
ReachedDelivery == pc \in {"deliver", "done"} \/ error.stage = "delivering"

\* ------------------------------------------------------------------ claims

\* C1: within one run the webhook POSTs are issued in the order in which the
\* crawl yielded the jobs: of two POSTs, the earlier one carries the job that
\* was yielded earlier.
C1_PostsInCrawlOrder ==
    \A i, j \in 1 .. Len(posts) :
        i < j => CrawlPosition(posts[i].job_id) < CrawlPosition(posts[j].job_id)

\* C1 witness: a finished run that posted two jobs the crawl yielded in an
\* order other than that of their ids.
C1_Witness ==
    /\ pc = "done"
    /\ Len(posts) >= 2
    /\ crawled[1].job_id > crawled[2].job_id

\* C2 (as claimed): once the run has ended, a POST answered non-2xx has not
\* failed the run and every enriched job has been POSTed.
C2_FailedDeliveryDoesNotPoisonRun ==
    (Terminated /\ \E i \in 1 .. Len(posts) : ~Acknowledged(posts[i].status))
        => /\ Succeeded
           /\ \A k \in 1 .. Len(jobs) : Posted(jobs[k].job_id)

\* C3 (as claimed): a run that reached delivery has, when it ends, POSTed every
\* enriched job at least once, and no job is POSTed again after a 2xx answer.
C3_DeliveredAtLeastOnce ==
    /\ (Terminated /\ ReachedDelivery) => \A k \in 1 .. Len(jobs) : Posted(jobs[k].job_id)
    /\ \A i, j \in 1 .. Len(posts) :
          (i < j /\ posts[i].job_id = posts[j].job_id) => ~Acknowledged(posts[i].status)

\* C4 (as claimed): the delivery of a job is given up only after at least two
\* and at most three POSTs of it.
C4_RetriedBeforeGivingUp ==
    (pc = "failed" /\ error.kind = "HTTPError")
        => Attempts(error.job) >= 2 /\ Attempts(error.job) <= 3

\* C5 (as claimed): when agent() has returned None for a job and no provider
\* call has raised, the run goes on to success: the job is never POSTed and
\* every other job of the run is.
C5_NoneSummarySkipsJobOnly ==
    (Terminated /\ job_summary = None /\ error.kind # "LLMTransportError")
        => /\ Succeeded
           /\ ~Posted(crawled[idx].job_id)
           /\ \A k \in 1 .. Len(crawled) : k # idx => Posted(crawled[k].job_id)

\* C6 (as claimed): an exception of a provider call during the enrichment of a
\* job never ends the run.
C6_TransportErrorSkipsJobOnly ==
    error.kind = "LLMTransportError" => pc # "failed"

\* user entries of the history that carry a job summary prompt
SummaryPrompts(h) ==
    {i \in 1 .. Len(h) :
        /\ h[i].role = "user"
        /\ \E k \in 1 .. Len(h[i].parts) : h[i].parts[k].text = <<Line("JSON JOB DATA")>>}

\* C7: history does not leak between jobs: when the agent call of a job starts
\* the history is empty, and while the job is enriched the only job summary
\* prompt in the history is the one of that job, at its head.
C7_HistoryPerJob ==
    /\ pc = "agent" => history = << >>
    /\ pc \in {"tools", "regen", "cover"} =>
          /\ SummaryPrompts(history) = {1}
          /\ history[1].parts[3].text = <<Line(ToString(crawled[idx].job_id))>>

\* C7 witness: the agent call of the second job is about to start, after a
\* first job whose enrichment filled the history.
C7_Witness ==
    /\ pc = "agent"
    /\ idx = 2
    /\ Len(jobs) = 1
    /\ history = << >>

\* C8: a generate call that gets a reply appends exactly two entries, the user
\* prompt and then the model's reply, whether or not the reply validates, and
\* returns None exactly when the reply does not validate against the schema.
C8_GenerateAppendsPromptAndReply ==
    [][(pc \in {"regen", "cover"} /\ error'.kind # "LLMTransportError") =>
         LET n == Len(history)
             prompt == IF pc = "regen" THEN RegeneratePrompt ELSE CoverLetterPrompt
             schema == IF pc = "regen" THEN JobAiSummary ELSE JobAiCoverLetter
             ret == IF pc = "regen" THEN job_summary' ELSE cover_letter'
         IN  /\ Len(history') = n + 2
             /\ SubSeq(history', 1, n) = history
             /\ history'[n + 1].role = "user"
             /\ [k \in 1 .. Len(history'[n + 1].parts) |->
                    history'[n + 1].parts[k].text[1].body] = Bodies(prompt)
             /\ history'[n + 2].role = "model"
             /\ [k \in 1 .. Len(history'[n + 2].parts) |->
                    history'[n + 2].parts[k].text[1].body] = Bodies(gen_response'.text)
             /\ (ret = None) <=> ~Validates(gen_response'.text, schema)
      ]_vars

\* C8 witness: a generate call whose reply did not validate has returned None
\* and left the prompt and the reply at the end of the history.
C8_Witness ==
    /\ pc = "cover"
    /\ regens = 1
    /\ job_summary = None
    /\ Len(history) >= 4
    /\ history[Len(history) - 1].role = "user"
    /\ history[Len(history)].role = "model"
    /\ ~Validates(gen_response.text, JobAiSummary)

\* C9 (as claimed): every tool-response turn of the history holds one result
\* per call of the request before it, in the order of the calls.
C9_OneResultPerCallInOrder ==
    \A i \in 2 .. Len(history) :
        history[i].role = "function_response" =>
            LET req == history[i - 1].parts
                res == history[i].parts
            IN  /\ Len(res) = Len(req)
                /\ \A k \in 1 .. Len(res) :
                      /\ res[k].call.name = req[k].call.name
                      /\ res[k].result = ToolResult(req[k].call)

\* C10: when agent() has returned, it has called generate once if the final
\* text did not validate and not at all if it did, never twice; it returns
\* the final document, or else the regenerated one, or else None.
C10_OneRegeneration ==
    /\ regens <= 1
    /\ (pc = "cover" /\ cover_letter = "unset") =>
          IF Validates(response.text, JobAiSummary)
          THEN regens = 0 /\ job_summary = Document(JobAiSummary)
          ELSE /\ regens = 1
               /\ job_summary = IF Validates(gen_response.text, JobAiSummary)
                                THEN Document(JobAiSummary) ELSE None

\* C10 witness: the final text did not validate, the one regeneration did,
\* and agent() has returned the regenerated document.
C10_Witness ==
    /\ pc = "cover"
    /\ cover_letter = "unset"
    /\ regens = 1
    /\ ~Validates(response.text, JobAiSummary)
    /\ job_summary = Document(JobAiSummary)

\* ------------------------------------------------- tool calls that fail
\* the requests the model has made so far in the conversation, in order
RequestedCalls(h) ==
    SelectSeq(h, LAMBDA c : c.role = "model" /\ c.parts # << >>
                              /\ c.parts[1].kind = "function_call")

\* the latest round of tool calls of the conversation holds request c
LatestRoundHas(c) ==
    /\ RequestedCalls(history) # << >>
    /\ LET round == RequestedCalls(history)[Len(RequestedCalls(history))]
       IN  \E k \in 1 .. Len(round.parts) : round.parts[k].call = c

\* the tool-response turn that follows the latest round carries an error
\* payload under the name of request c
AnsweredWithError(c) ==
    \E i \in 1 .. Len(history) :
        /\ history[i].role = "function_response"
        /\ \A j \in (i + 1) .. Len(history) :
               ~(history[j].role = "model" /\ history[j].parts[1].kind = "function_call")
        /\ \E k \in 1 .. Len(history[i].parts) :
               /\ history[i].parts[k].call.name = c.name
               /\ history[i].parts[k].result = "error"

UnknownTool == [name |-> "no_such_tool", args |-> "x"]

MalformedDate == [name |-> "calculate_month_between", args |-> "bad"]

\* C11: a request that names a tool outside callable_tools is not executed
\* and does not end the agent call: once its round has been dispatched the
\* run has not failed on it and the model has a tool error for it in the
\* tool-response turn.
C11_UnknownToolAnsweredNotRaised ==
    (LatestRoundHas(UnknownTool) /\ pc # "tools") =>
        /\ ~(pc = "failed" /\ error.kind = "KeyError")
        /\ (pc # "failed" => AnsweredWithError(UnknownTool))

\* C12: calculate_month_between called with a malformed date fails inside the
\* loop only: the failure does not leave agent(), the model gets an error
\* payload in the tool-response turn and the loop goes on.
C12_MalformedDateAnsweredNotRaised ==
    (LatestRoundHas(MalformedDate) /\ pc # "tools") =>
        /\ ~(pc = "failed" /\ error.kind = "ValueError" /\ error.stage = "enriching")
        /\ (pc # "failed" => AnsweredWithError(MalformedDate))

\* ---------------------------------------------- the tool loop of agent()
\* One call of GoogleAIProvider.agent on its own.  What the call does next
\* depends on the latest answer only, never on the history, so the history
\* is left out here and the model may go on asking for tools without end.

\* answers generate_content can give inside the call, whatever came before
LoopAnswers == {TransportError} \cup TextResponses \cup ToolResponses(MaxCalls)

\* agent(): where the call stands once generate_content has answered r
LoopAfterAnswer(r) ==
    IF r = TransportError THEN "raised"
    ELSE IF UseTools(r) # << >> THEN "tools"
    ELSE IF Validates(r.text, JobAiSummary) THEN "returned"
    ELSE "regen"

\* agent() from its entry to the first answer
LoopAgentCall(r) ==
    /\ loop_pc = "idle"
    /\ loop_response' = r
    /\ loop_pc' = LoopAfterAnswer(r)
    /\ loop_rounds' = 0
    /\ UNCHANGED <<pipeline_vars, spider_vars, parse_vars, task_vars, ai_vars, score_vars, client_vars, ollama_vars, pipe_vars, web_vars, queue_vars, store_vars>>

\* one pass of the while loop in which a callable raises
LoopToolRoundRaises ==
    /\ loop_pc = "tools"
    /\ DispatchRaises(UseTools(loop_response))
    /\ loop_pc' = "raised"
    /\ UNCHANGED <<loop_response, loop_rounds>>
    /\ UNCHANGED <<pipeline_vars, spider_vars, parse_vars, task_vars, ai_vars, score_vars, client_vars, ollama_vars, pipe_vars, web_vars, queue_vars, store_vars>>

\* one pass of the while loop, up to the provider's next answer r
LoopToolRound(r) ==
    /\ loop_pc = "tools"
    /\ ~DispatchRaises(UseTools(loop_response))
    /\ loop_response' = r
    /\ loop_pc' = LoopAfterAnswer(r)
    /\ loop_rounds' = IF loop_rounds < MaxCalls THEN loop_rounds + 1 ELSE loop_rounds
    /\ UNCHANGED <<pipeline_vars, spider_vars, parse_vars, task_vars, ai_vars, score_vars, client_vars, ollama_vars, pipe_vars, web_vars, queue_vars, store_vars>>

\* the except branch: one generate() call, whose result is returned
LoopRegenerate(r) ==
    /\ loop_pc = "regen"
    /\ loop_pc' = IF r = TransportError THEN "raised" ELSE "returned"
    /\ UNCHANGED <<loop_response, loop_rounds>>
    /\ UNCHANGED <<pipeline_vars, spider_vars, parse_vars, task_vars, ai_vars, score_vars, client_vars, ollama_vars, pipe_vars, web_vars, queue_vars, store_vars>>

LoopNext ==
    \/ \E r \in LoopAnswers : LoopAgentCall(r)
    \/ LoopToolRoundRaises
    \/ \E r \in LoopAnswers : LoopToolRound(r)
    \/ \E r \in GenerateResponses : LoopRegenerate(r)

\* the client keeps running and the provider answers every request
LoopSpec == Init /\ [][LoopNext]_vars /\ WF_vars(LoopNext)

\* C13: an agent call always terminates, by returning or by raising, also
\* when the model answers every request with tool calls.
C13_AgentCallTerminates == <>(loop_pc \in {"returned", "raised"})

\* --------------------------------------------------------------- the spider
\* LinkedInSpider under Scrapy: a step is the download of one request the
\* scheduler holds together with the whole callback on its response; the
\* settings of _crawl allow one request in flight at a time.

\* max_jobs when the argument is falsy
DefaultMaxJobs == 20

\* values of SpiderConfig.max_jobs
MaxJobsArgs == 0 .. MaxJobs

\* int(max_jobs) if max_jobs else 20
IntOrDefault(arg) == IF arg # 0 THEN arg ELSE DefaultMaxJobs

\* f'{base_search_url}?{urlencode(params)}': only `start` varies in a run
SearchUrl(start) == [base |-> "seeMoreJobPostings/search", start |-> start, last |-> 0]

\* f'{base_job_url}{job_id}'
JobUrl(job_id) == [base |-> "jobPosting/", start |-> 0, last |-> job_id]

\* url.split('/')[-1]
LastSegment(url) == url.last

SearchRequest(start) == [callback |-> "parse_search", url |-> SearchUrl(start)]

JobRequest(job_id) == [callback |-> "parse_job", url |-> JobUrl(job_id)]

\* a request yielded with dont_filter=True bypasses the duplicate filter
DontFilterSet == TRUE

\* scrapy.Request(url, callback=...): dont_filter keeps its default
DontFilter == FALSE

\* the request fingerprint of a GET request without body
Fingerprint(req) == req.url

\* Scrapy's scheduler takes the requests a callback yields, in order, and
\* drops those whose fingerprint the duplicate filter has seen
RECURSIVE Enqueue(_, _, _)
Enqueue(reqs, sched, sn) ==
    IF reqs = << >> THEN [scheduler |-> sched, seen |-> sn]
    ELSE IF ~DontFilter /\ Fingerprint(Head(reqs)) \in sn
         THEN Enqueue(Tail(reqs), sched, sn)
         ELSE Enqueue(Tail(reqs), Append(sched, Head(reqs)),
                      sn \cup {Fingerprint(Head(reqs))})

\* a card of a search page: its data-entity-urn, or None when it has none
NoUrn == [ns |-> None, id |-> 0]

Urn(job_id) == [ns |-> "urn:li:jobPosting", id |-> job_id]

\* job_urn.split(':')[-1]
JobIdOf(urn) == urn.id

\* bodies the search endpoint may answer with: MaxCards cards on a page at
\* most, and no more than MaxPages pages of cards in a run
MaxCards == 2

MaxPages == 3

Cards == {NoUrn} \cup {Urn(i) : i \in JobIds}

\* response.xpath('//html/body').get() is None
EmptyBody == [kind |-> "empty", cards |-> << >>]

SearchPages == {EmptyBody} \cup {[kind |-> "cards", cards |-> cs] : cs \in SeqsUpTo(Cards, MaxCards)}

\* the for loop of parse_search over the cards: the counter and the requests
\* yielded, and whether the loop returned on the limit
RECURSIVE WalkCards(_, _, _, _)
WalkCards(cards, found, limit, out) ==
    IF cards = << >> THEN [found |-> found, out |-> out, returned |-> FALSE]
    ELSE IF found >= limit THEN [found |-> found, out |-> out, returned |-> TRUE]
    ELSE IF Head(cards) # NoUrn
         THEN WalkCards(Tail(cards), found + 1, limit,
                        Append(out, JobRequest(JobIdOf(Head(cards)))))
         ELSE WalkCards(Tail(cards), found, limit, out)

\* a parse_search that asks for the next page whatever the counter says
PaginateAlways(found, limit) == TRUE

\* parse_search: if self.__jobs_found < self.max_jobs
ContinuePagination(found, limit) == found < limit

\* the fields of an item besides job_id and run_id
HeaderFields == {"job_title", "job_url", "job_location", "employer", "employer_url"}

DefaultedFields == {"seniority_level", "employment_type", "job_function", "industries"}

Fields == HeaderFields \cup {"job_description"} \cup DefaultedFields

\* job detail pages, told apart by the fields their markup lacks
DetailPage(url, missing) == [kind |-> "detail", url |-> url, missing |-> missing]

\* the pages the spider meets in a crawl: a full one, one without the
\* criteria list, one without the description
CrawlMissing == {{}, DefaultedFields, {"job_description"}}

\* selector.get() when nothing matches
NoLine == [body |-> None, pad |-> FALSE]

\* what the selector of field f gets on the page
PageLine(page, f) == IF f \in page.missing THEN NoLine ELSE Padded(f)

\* the default __parse_job_header and __parse_job_summary pass for field f
FieldDefault(f) == IF f \in DefaultedFields THEN "N/A" ELSE None

\* a __parse_line that has no default to fall back on
ParseLineNoDefault(line, default) ==
    IF line = NoLine THEN "ValueError" ELSE Strip(line)

\* LinkedInSpider.__parse_line
ParseLine(line, default) ==
    IF line = NoLine /\ default = None THEN "ValueError"
    ELSE IF line = NoLine THEN default
    ELSE Strip(line)

\* the dict built by __parse_job_header and __parse_job_summary
Extract(page) == [f \in Fields |-> ParseLine(PageLine(page, f), FieldDefault(f))]

\* one of the __parse_line calls raises
ExtractRaises(page) == \E f \in Fields : Extract(page)[f] = "ValueError"

\* parse_job: data = dict(job_id=response.url.split('/')[-1], ...) | handler(...)
Item(page) == [job_id |-> LastSegment(page.url), fields |-> Extract(page)]

\* searches the duplicate filter has let through
SearchesSeen == {u \in seen : u.base = SearchUrl(0).base}

\* __init__ and start(): the first search request
SpiderOpen(arg) ==
    /\ spider = "new"
    /\ spider' = "open"
    /\ spider_config' = arg
    /\ max_jobs' = IntOrDefault(arg)
    /\ jobs_found' = 0
    /\ params_start' = 0
    /\ LET q == Enqueue(<<SearchRequest(0)>>, scheduler, seen)
       IN  scheduler' = q.scheduler /\ seen' = q.seen
    /\ UNCHANGED <<items, search_page>>
    /\ UNCHANGED <<pipeline_vars, parse_vars, loop_vars, task_vars, ai_vars, score_vars, client_vars, ollama_vars, pipe_vars, web_vars, queue_vars, store_vars>>

\* the scheduler without its i-th request
Without(q, i) == [k \in 1 .. (Len(q) - 1) |-> IF k < i THEN q[k] ELSE q[k + 1]]

\* parse_search on the response to the i-th request of the scheduler
ParseSearch(i, page) ==
    /\ spider = "open"
    /\ i \in 1 .. Len(scheduler)
    /\ scheduler[i].callback = "parse_search"
    /\ page # EmptyBody => Cardinality(SearchesSeen) <= MaxPages
    /\ IF page = EmptyBody
       THEN /\ scheduler' = Without(scheduler, i)
            /\ search_page' = [kind |-> "empty", urns |-> 0]
            /\ UNCHANGED <<jobs_found, params_start, seen>>
       ELSE LET w == WalkCards(page.cards, jobs_found, max_jobs, << >>)
                more == ~w.returned /\ ContinuePagination(w.found, max_jobs)
                out == IF more THEN Append(w.out, SearchRequest(w.found)) ELSE w.out
                q == Enqueue(out, Without(scheduler, i), seen)
            IN  /\ jobs_found' = w.found
                /\ params_start' = IF more THEN w.found ELSE params_start
                /\ scheduler' = q.scheduler
                /\ seen' = q.seen
                /\ search_page' = [kind |-> "cards", urns |-> w.found - jobs_found]
    /\ UNCHANGED <<spider, spider_config, max_jobs, items>>
    /\ UNCHANGED <<pipeline_vars, parse_vars, loop_vars, task_vars, ai_vars, score_vars, client_vars, ollama_vars, pipe_vars, web_vars, queue_vars, store_vars>>

\* parse_job on the response to the i-th request of the scheduler
ParseJob(i, missing) ==
    /\ spider = "open"
    /\ i \in 1 .. Len(scheduler)
    /\ scheduler[i].callback = "parse_job"
    /\ scheduler' = Without(scheduler, i)
    /\ LET page == DetailPage(scheduler[i].url, missing)
       IN  items' = IF ExtractRaises(page) THEN items ELSE Append(items, Item(page))
    /\ UNCHANGED <<spider, spider_config, max_jobs, jobs_found, params_start, seen,
                   search_page>>
    /\ UNCHANGED <<pipeline_vars, parse_vars, loop_vars, task_vars, ai_vars, score_vars, client_vars, ollama_vars, pipe_vars, web_vars, queue_vars, store_vars>>

\* the download of the i-th request fails: no callback runs on it
DownloadFails(i) ==
    /\ spider = "open"
    /\ i \in 1 .. Len(scheduler)
    /\ scheduler' = Without(scheduler, i)
    /\ UNCHANGED <<spider, spider_config, max_jobs, jobs_found, params_start, seen,
                   items, search_page>>
    /\ UNCHANGED <<pipeline_vars, parse_vars, loop_vars, task_vars, ai_vars, score_vars, client_vars, ollama_vars, pipe_vars, web_vars, queue_vars, store_vars>>

\* the engine closes the spider once no request is left
SpiderClose ==
    /\ spider = "open"
    /\ scheduler = << >>
    /\ spider' = "closed"
    /\ UNCHANGED <<spider_config, max_jobs, jobs_found, params_start, scheduler, seen,
                   items, search_page>>
    /\ UNCHANGED <<pipeline_vars, parse_vars, loop_vars, task_vars, ai_vars, score_vars, client_vars, ollama_vars, pipe_vars, web_vars, queue_vars, store_vars>>

\* requests in the scheduler at any one time: a page of cards and a search
QueueSlots == 1 .. (MaxCards + 1)

SpiderNext ==
    \/ \E arg \in MaxJobsArgs : SpiderOpen(arg)
    \/ \E i \in QueueSlots, page \in SearchPages : ParseSearch(i, page)
    \/ \E i \in QueueSlots, missing \in CrawlMissing : ParseJob(i, missing)
    \/ \E i \in QueueSlots : DownloadFails(i)
    \/ SpiderClose

SpiderSpec == Init /\ [][SpiderNext]_vars

\* ------------------------------------------------------------- parse_job
\* parse_job on its own: any response to a job request, whatever its markup
\* lacks, and what the callback yields on it.
InitParseJob ==
    /\ InitPipeline /\ InitSpider /\ InitLoop /\ InitTask /\ InitAI /\ InitScore /\ InitClient /\ InitOllama /\ InitPipe /\ InitWeb /\ InitQueue /\ InitStore
    /\ detail_page \in {DetailPage(JobUrl(id), ms) : id \in JobIds, ms \in SUBSET Fields}
    /\ parsed = NoPage

\* parse_job(response): the item it yields, or the ValueError of __parse_line
parse_job ==
    /\ parsed = NoPage
    /\ parsed' = IF ExtractRaises(detail_page)
                 THEN [kind |-> "ValueError"]
                 ELSE [kind |-> "item", item |-> Item(detail_page)]
    /\ UNCHANGED detail_page
    /\ UNCHANGED <<pipeline_vars, spider_vars, loop_vars, task_vars, ai_vars, score_vars, client_vars, ollama_vars, pipe_vars, web_vars, queue_vars, store_vars>>

ParseJobNext == parse_job

ParseJobSpec == InitParseJob /\ [][ParseJobNext]_vars

\* job requests the duplicate filter has let through
JobsSeen == {u \in seen : u.base = JobUrl(0).base}

\* search requests the scheduler holds
SearchPending == {i \in 1 .. Len(scheduler) : scheduler[i].callback = "parse_search"}

\* C14: the crawler emits no more than max_jobs records, and sends no more
\* than max_jobs job-detail requests, max_jobs being the number the run was
\* configured with.
C14_EmittedWithinMaxJobs ==
    spider # "new" =>
        /\ Len(items) <= spider_config
        /\ Cardinality(JobsSeen) <= spider_config

\* C15: the records emitted in one run have pairwise distinct job_id values.
C15_DistinctJobIds ==
    \A i, j \in 1 .. Len(items) : i # j => items[i].job_id # items[j].job_id

\* two records are out and a card listed again on a later page was counted
\* but not fetched again
C15_Witness ==
    /\ Len(items) >= 2
    /\ jobs_found > Cardinality(JobsSeen)

\* C16: a run configured with max_jobs = 0 emits no record and fetches no
\* job page, so that nothing is left to enrich or to POST.
C16_ZeroMaxJobsEmitsNothing ==
    (spider # "new" /\ spider_config = 0) => (items = << >> /\ JobsSeen = {})

RequiredFields ==
    {"job_title", "job_url", "job_location", "employer", "employer_url", "job_description"}

MockLimit == 5

Min(a, b) == IF a <= b THEN a ELSE b

\* generate_mock_jobs: job_id is f"mock_{run_id}_{i}" for i in range(...)
generate_mock_jobs(n) == [i \in 1 .. Min(n, MockLimit) |-> [job_id |-> i - 1, mock |-> TRUE]]

\* the except clause of crawl_jobs: update_state(state="FAILURE") and raise
TaskFails(e) ==
    /\ task_pc' = "ended"
    /\ task_state' = "FAILURE"
    /\ task_meta' = "Service 1 failed: " \o e
    /\ task_result' = NoResult

\* update_state(state="SUCCESS", ...) and return {"status": "success", ...}
TaskReturns(found, status) ==
    /\ task_pc' = "ended"
    /\ task_state' = "SUCCESS"
    /\ task_meta' = status
    /\ task_result' = [status |-> "success", jobs_found |-> found]

\* crawl_jobs up to the check of the scrapy directory
TaskStart(arg, dir_exists) ==
    /\ task_pc = "queued"
    /\ task_max_jobs' = arg
    /\ IF dir_exists
       THEN /\ task_pc' = "check"
            /\ task_state' = "PROGRESS"
            /\ task_meta' = "Running Scrapy spider"
            /\ task_result' = task_result
       ELSE TaskFails("Scrapy directory not found")
    /\ UNCHANGED <<returncode, jobs_data, db_jobs>>
    /\ UNCHANGED <<pipeline_vars, spider_vars, parse_vars, loop_vars, ai_vars, score_vars, client_vars, ollama_vars, pipe_vars, web_vars, queue_vars, store_vars>>

\* the check of the spider file: without it, a fallback spider makes the
\* code read jobs_data before it is assigned; with neither, mock jobs
CheckSpider(spider_file, fallback_spider) ==
    /\ task_pc = "check"
    /\ IF spider_file
       THEN /\ task_pc' = "scrapy"
            /\ UNCHANGED <<task_state, task_meta, task_result, jobs_data>>
       ELSE IF fallback_spider
            THEN TaskFails("UnboundLocalError") /\ jobs_data' = jobs_data
            ELSE /\ jobs_data' = generate_mock_jobs(task_max_jobs)
                 /\ task_pc' = "store_mock_early"
                 /\ UNCHANGED <<task_state, task_meta, task_result>>
    /\ UNCHANGED <<task_max_jobs, returncode, db_jobs>>
    /\ UNCHANGED <<pipeline_vars, spider_vars, parse_vars, loop_vars, ai_vars, score_vars, client_vars, ollama_vars, pipe_vars, web_vars, queue_vars, store_vars>>

\* get_db_connection and the INSERT loop with its commit
Stored(conn, insert_ok) == IF conn /\ insert_ok THEN db_jobs \o jobs_data ELSE db_jobs

\* the exception a store of mock jobs ends with
MockStoreError(conn) ==
    IF conn THEN "Failed to store mock jobs"
    ELSE "Failed to connect to database for storing mock jobs"

\* the exception a store of scraped jobs ends with
StoreError(conn) == IF conn THEN "psycopg2.Error" ELSE "Failed to connect to database"

\* the mock jobs generated because no spider is there, stored
StoreMockEarly(conn, insert_ok) ==
    /\ task_pc = "store_mock_early"
    /\ db_jobs' = Stored(conn, insert_ok)
    /\ IF conn /\ insert_ok
       THEN TaskReturns(Len(jobs_data), "Mock jobs generated successfully")
       ELSE TaskFails(MockStoreError(conn))
    /\ UNCHANGED <<task_max_jobs, returncode, jobs_data>>
    /\ UNCHANGED <<pipeline_vars, spider_vars, parse_vars, loop_vars, ai_vars, score_vars, client_vars, ollama_vars, pipe_vars, web_vars, queue_vars, store_vars>>

\* what subprocess.run(cmd, ..., timeout=300) may do: raise TimeoutExpired,
\* or return with the exit code of scrapy
TimeoutExpired == [kind |-> "TimeoutExpired", code |-> 0]

Exited(code) == [kind |-> "exit", code |-> code]

ScrapyRuns == {TimeoutExpired, Exited(0), Exited(1)}

\* subprocess.run: a non-zero return code makes the task go on with mock jobs
RunScrapy(run) ==
    /\ task_pc = "scrapy"
    /\ returncode' = run
    /\ IF run = TimeoutExpired
       THEN TaskFails("TimeoutExpired") /\ jobs_data' = jobs_data
       ELSE IF run.code # 0
            THEN /\ jobs_data' = generate_mock_jobs(task_max_jobs)
                 /\ task_pc' = "store_mock"
                 /\ UNCHANGED <<task_state, task_meta, task_result>>
            ELSE /\ jobs_data' = << >>
                 /\ task_pc' = "read"
                 /\ task_state' = "PROGRESS"
                 /\ task_meta' = "Processing crawled data"
                 /\ task_result' = task_result
    /\ UNCHANGED <<task_max_jobs, db_jobs>>
    /\ UNCHANGED <<pipeline_vars, spider_vars, parse_vars, loop_vars, ai_vars, score_vars, client_vars, ollama_vars, pipe_vars, web_vars, queue_vars, store_vars>>

\* the mock jobs generated because scrapy failed, stored
StoreMock(conn, insert_ok) ==
    /\ task_pc = "store_mock"
    /\ db_jobs' = Stored(conn, insert_ok)
    /\ IF conn /\ insert_ok
       THEN TaskReturns(Len(jobs_data), "Mock jobs generated successfully")
       ELSE TaskFails(MockStoreError(conn))
    /\ UNCHANGED <<task_max_jobs, returncode, jobs_data>>
    /\ UNCHANGED <<pipeline_vars, spider_vars, parse_vars, loop_vars, ai_vars, score_vars, client_vars, ollama_vars, pipe_vars, web_vars, queue_vars, store_vars>>

\* what /tmp/jobs_{run_id}.json may hold: no file, lines that do not parse,
\* or one job per line
NoFile == [kind |-> "none", lines |-> << >>]

Unparsable == [kind |-> "unparsable", lines |-> << >>]

ScrapedJobs ==
    {js \in SeqsUpTo([job_id : JobIds, mock : {FALSE}], MaxJobs) :
        \A i, j \in 1 .. Len(js) : i # j => js[i].job_id # js[j].job_id}

OutputFiles == {NoFile, Unparsable} \cup {[kind |-> "lines", lines |-> js] : js \in ScrapedJobs}

\* the output file is read: json.loads on each line
ReadOutput(file) ==
    /\ task_pc = "read"
    /\ IF file = Unparsable
       THEN TaskFails("JSONDecodeError") /\ jobs_data' = jobs_data
       ELSE IF file = NoFile
            THEN /\ TaskReturns(0, "Job crawling completed successfully")
                 /\ jobs_data' = << >>
            ELSE /\ jobs_data' = file.lines
                 /\ task_pc' = "store"
                 /\ UNCHANGED <<task_state, task_meta, task_result>>
    /\ UNCHANGED <<task_max_jobs, returncode, db_jobs>>
    /\ UNCHANGED <<pipeline_vars, spider_vars, parse_vars, loop_vars, ai_vars, score_vars, client_vars, ollama_vars, pipe_vars, web_vars, queue_vars, store_vars>>

\* the scraped jobs are stored and the task returns
Store(conn, insert_ok) ==
    /\ task_pc = "store"
    /\ db_jobs' = Stored(conn, insert_ok)
    /\ IF conn /\ insert_ok
       THEN TaskReturns(Len(jobs_data), "Job crawling completed successfully")
       ELSE TaskFails(StoreError(conn))
    /\ UNCHANGED <<task_max_jobs, returncode, jobs_data>>
    /\ UNCHANGED <<pipeline_vars, spider_vars, parse_vars, loop_vars, ai_vars, score_vars, client_vars, ollama_vars, pipe_vars, web_vars, queue_vars, store_vars>>

TaskNext ==
    \/ \E arg \in MaxJobsArgs, dir_exists \in BOOLEAN : TaskStart(arg, dir_exists)
    \/ \E spider_file, fallback_spider \in BOOLEAN : CheckSpider(spider_file, fallback_spider)
    \/ \E conn, insert_ok \in BOOLEAN : StoreMockEarly(conn, insert_ok)
    \/ \E run \in ScrapyRuns : RunScrapy(run)
    \/ \E conn, insert_ok \in BOOLEAN : StoreMock(conn, insert_ok)
    \/ \E file \in OutputFiles : ReadOutput(file)
    \/ \E conn, insert_ok \in BOOLEAN : Store(conn, insert_ok)

TaskSpec == Init /\ [][TaskNext]_vars

SupportedProviders == {"google", "ollama"}

TaskId == "task"

\* GET /search/{task_id}/status: the handler does not look the task up
get_task_status(task_id) == [status |-> "unknown", task_id |-> task_id]

\* the pipeline task was enqueued
Submitted == pc \notin {"submit", "rejected"}

Keywords == {"python", "develop"}

Descriptions == SUBSET Keywords

\* a row of the jobs table as get_jobs_for_run_id returns it
JobRow(id, description) == [id |-> id, job_description |-> description]

\* the rows of a run, ordered by created_at, ids in insertion order
RunRows ==
    UNION {{[k \in 1 .. n |-> JobRow(k, d[k])] : d \in [1 .. n -> Descriptions]} : n \in 0 .. MaxJobs}

\* get_jobs_for_run_id: [] without a connection or when the query raises
get_jobs_for_run_id(rows, conn, query_ok) ==
    IF conn /\ query_ok THEN rows ELSE << >>

\* the phrases the helpers join
extract_key_skills(description) ==
    IF "python" \in description
    THEN <<"Python development">>
    ELSE <<"technical development and problem-solving">>

extract_responsibilities(description) ==
    IF "develop" \in description
    THEN <<"Develop and maintain software applications">>
    ELSE <<"Develop and maintain software applications",
           "Collaborate with cross-functional teams",
           "Write clean, maintainable code">>

extract_required_skills(description) ==
    IF "python" \in description
    THEN <<"Python programming experience">>
    ELSE <<"Strong programming skills",
           "Problem-solving abilities",
           "Team collaboration experience">>

generate_ai_cover_letter(description) ==
    [key_skills |-> extract_key_skills(description)]

generate_ai_job_summary(description) ==
    [responsibilities |-> extract_responsibilities(description),
     required_skills |-> extract_required_skills(description)]

\* the row store_processed_job inserts
ProcessedRow(job) ==
    [job_id |-> job.id,
     cover_letter |-> generate_ai_cover_letter(job.job_description),
     job_summary |-> generate_ai_job_summary(job.job_description),
     processing_status |-> "completed"]

\* store_processed_job: True when the row was inserted and committed
store_processed_job(conn, insert_ok) == conn /\ insert_ok

\* process_single_job_with_ai: the 'success' entry of its result
process_single_job_with_ai(conn, insert_ok) == store_processed_job(conn, insert_ok)

Meta(status, current_job) == [status |-> status, current_job |-> current_job]

\* the task ends FAILURE: the outer handler of process_jobs_with_ai
AIFails ==
    /\ ai_pc' = "ended"
    /\ ai_state' = "FAILURE"
    /\ ai_meta' = Meta("Service 2 failed", 0)
    /\ ai_result' = NoAIResult

\* lines 392-430: the first update_state, the query, the return of a run
\* without jobs, or the start of the loop
AIStart(rows, update_ok, conn, query_ok) ==
    /\ ai_pc = "queued"
    /\ IF ~update_ok
       THEN /\ AIFails
            /\ ai_jobs' = ai_jobs
       ELSE /\ ai_jobs' = get_jobs_for_run_id(rows, conn, query_ok)
            /\ IF ai_jobs' = << >>
               THEN /\ ai_pc' = "ended"
                    /\ ai_state' = "SUCCESS"
                    /\ ai_meta' = Meta("No jobs to process", 0)
                    /\ ai_result' = [status |-> "success", jobs_processed |-> 0,
                                     jobs_failed |-> 0, total_jobs |-> 0]
               ELSE /\ ai_pc' = "loop"
                    /\ ai_state' = "PROGRESS"
                    /\ ai_meta' = Meta("Processing jobs with AI", 0)
                    /\ ai_result' = ai_result
    /\ ai_i' = 0
    /\ processed_count' = 0
    /\ failed_count' = 0
    /\ processed_jobs' = processed_jobs
    /\ UNCHANGED <<pipeline_vars, spider_vars, parse_vars, loop_vars, task_vars, score_vars, client_vars, ollama_vars, pipe_vars, web_vars, queue_vars, store_vars>>

\* the counters after one pass of the loop body: raised is an exception
\* caught by the handler of the loop body, success the result's 'success'
ProcessedAfter(raised, success) ==
    IF ~raised /\ success THEN processed_count + 1 ELSE processed_count

FailedAfterEveryJob(raised, success) == failed_count + 1

FailedAfter(raised, success) ==
    IF raised \/ ~success THEN failed_count + 1 ELSE failed_count

\* lines 432-465: one pass of the loop body; update_state may raise, and so
\* the job is counted as failed without being processed
AIJob(update_ok, conn, insert_ok) ==
    /\ ai_pc = "loop"
    /\ ai_i < Len(ai_jobs)
    /\ ai_i' = ai_i + 1
    /\ LET success == process_single_job_with_ai(conn, insert_ok) IN
       /\ ai_meta' = IF update_ok THEN Meta("Processing job", ai_i') ELSE ai_meta
       /\ processed_jobs' = IF update_ok /\ success
                            THEN Append(processed_jobs, ProcessedRow(ai_jobs[ai_i']))
                            ELSE processed_jobs
       /\ processed_count' = ProcessedAfter(~update_ok, success)
       /\ failed_count' = FailedAfter(~update_ok, success)
    /\ UNCHANGED <<ai_pc, ai_state, ai_result, ai_jobs>>
    /\ UNCHANGED <<pipeline_vars, spider_vars, parse_vars, loop_vars, task_vars, score_vars, client_vars, ollama_vars, pipe_vars, web_vars, queue_vars, store_vars>>

\* lines 467-489: the loop is over
AIFinish(update_ok) ==
    /\ ai_pc = "loop"
    /\ ai_i = Len(ai_jobs)
    /\ IF update_ok
       THEN /\ ai_pc' = "ended"
            /\ ai_state' = "SUCCESS"
            /\ ai_meta' = Meta("AI job processing completed successfully", 0)
            /\ ai_result' = [status |-> "success", jobs_processed |-> processed_count,
                             jobs_failed |-> failed_count, total_jobs |-> Len(ai_jobs)]
       ELSE AIFails
    /\ UNCHANGED <<ai_jobs, ai_i, processed_count, failed_count, processed_jobs>>
    /\ UNCHANGED <<pipeline_vars, spider_vars, parse_vars, loop_vars, task_vars, score_vars, client_vars, ollama_vars, pipe_vars, web_vars, queue_vars, store_vars>>

AINext ==
    \/ \E rows \in RunRows, update_ok, conn, query_ok \in BOOLEAN :
           AIStart(rows, update_ok, conn, query_ok)
    \/ \E update_ok, conn, insert_ok \in BOOLEAN : AIJob(update_ok, conn, insert_ok)
    \/ \E update_ok \in BOOLEAN : AIFinish(update_ok)

AISpec == Init /\ [][AINext]_vars

OllamaTaskTaken ==
    /\ broker # << >>
    /\ Lower(Head(broker).ai_provider) = "ollama"
    /\ broker' = Tail(broker)

\* C23: a run submitted with provider ollama gets its provider and goes on
\* to crawl, so that with one job found and a webhook answering 200 it can
\* end succeeded with that job enriched and posted once.
C23_OllamaRunProceeds ==
    [][OllamaTaskTaken => (provider' = "ollama" /\ pc' = "crawl")]_vars

\* -------------------------------------------------------- the scoring tools
\* names a list of skills or industries is drawn from
Skills == {"python", "sql"}

SkillLists == SeqsUpTo(Skills, MaxSkills)

\* weights of calculate_overall_score, in hundredths
Weights ==
    [skills |-> 30, education |-> 10, experience |-> 30,
     location |-> 5, industries |-> 5, languages |-> 20]

WeightKeys == DOMAIN Weights

\* the properties of "scores" in calculate_overall_score_function
DeclaredKeys == {"skills", "education", "experience", "location", "industries"}

\* the fields of AlignmentScore
AlignmentScoreFields == WeightKeys \cup {"total"}

\* integers a score is drawn from: the ends of the range, one inside, one above
ScoreValues == {0, 35, 100, 150}

\* the dicts a tool call or a model answer may carry
ScoreDicts ==
    UNION {[ks -> ScoreValues] :
             ks \in {AlignmentScoreFields, WeightKeys, DeclaredKeys, {"skills"}}}

\* the number a tool returns: Python's float, kept as the exact fraction
Returns(num, den) == [kind |-> "return", num |-> num, den |-> den, error |-> ""]

Raises(e) == [kind |-> "raise", num |-> 0, den |-> 1, error |-> e]

\* number of entries of the list for which the test holds
Count(list, Test(_)) == Len(SelectSeq(list, Test))

In(list, x) == \E i \in 1 .. Len(list) : list[i] = x

\* calculate_skills_score: score / len(job_skills) * 100
calculate_skills_score(candidate_skills, job_skills) ==
    LET score == Count(job_skills, LAMBDA skill : In(candidate_skills, skill))
    IN  IF Len(job_skills) = 0 THEN Raises("ZeroDivisionError")
        ELSE Returns(score * 100, Len(job_skills))

\* calculate_industries_score: score / len(job_industries) * 100
calculate_industries_score(candidate_industries, job_industries) ==
    LET score == Count(job_industries, LAMBDA industry : In(candidate_industries, industry))
    IN  IF Len(job_industries) = 0 THEN Raises("ZeroDivisionError")
        ELSE Returns(score * 100, Len(job_industries))

RECURSIVE WeightedSum(_, _)
WeightedSum(d, keys) ==
    IF keys = {} THEN 0
    ELSE LET key == CHOOSE k \in keys : TRUE
         IN  Weights[key] * d[key] + WeightedSum(d, keys \ {key})

\* calculate_overall_score: sum(weights[key] * scores[key] for key in weights)
calculate_overall_score(d) ==
    IF WeightKeys \subseteq DOMAIN d THEN Returns(WeightedSum(d, WeightKeys), 100)
    ELSE Raises("KeyError")

\* AlignmentScore.model_validate: seven int fields, each required, none
\* with a constraint on its value
AlignmentScoreValidates(d) ==
    /\ AlignmentScoreFields \subseteq DOMAIN d
    /\ \A k \in AlignmentScoreFields : d[k] \in Int

Validated(d) ==
    [kind |-> IF AlignmentScoreValidates(d) THEN "valid" ELSE "invalid",
     num |-> 0, den |-> 1, error |-> ""]

\* the result is a whole number
IsInteger(r) == r.num % r.den = 0

\* the result is the number n
Is(r, n) == r.kind = "return" /\ r.num = n * r.den

\* round() of the fraction num / den, den > 0, num >= 0: ties go to the even
Round(num, den) ==
    LET q == num \div den
        twice == 2 * (num % den)
    IN  IF twice < den THEN q
        ELSE IF twice > den THEN q + 1
        ELSE IF q % 2 = 0 THEN q ELSE q + 1

InitScoreSpec ==
    /\ InitPipeline /\ InitSpider /\ InitParse /\ InitLoop /\ InitTask /\ InitAI /\ InitClient /\ InitOllama /\ InitPipe /\ InitWeb /\ InitQueue /\ InitStore
    /\ score_call = "none"
    /\ score_result = NoScore
    /\ \/ /\ candidate_list \in SkillLists
          /\ required_list \in SkillLists
          /\ scores = NoScores
       \/ /\ candidate_list = << >>
          /\ required_list = << >>
          /\ scores \in ScoreDicts

\* callable_tools["calculate_skills_score"](**tool.args)
CallSkillsScore ==
    /\ score_call = "none"
    /\ scores = NoScores
    /\ score_call' = "calculate_skills_score"
    /\ score_result' = calculate_skills_score(candidate_list, required_list)
    /\ UNCHANGED <<candidate_list, required_list, scores>>
    /\ UNCHANGED <<pipeline_vars, spider_vars, parse_vars, loop_vars, task_vars, ai_vars, client_vars, ollama_vars, pipe_vars, web_vars, queue_vars, store_vars>>

\* callable_tools["calculate_industries_score"](**tool.args)
CallIndustriesScore ==
    /\ score_call = "none"
    /\ scores = NoScores
    /\ score_call' = "calculate_industries_score"
    /\ score_result' = calculate_industries_score(candidate_list, required_list)
    /\ UNCHANGED <<candidate_list, required_list, scores>>
    /\ UNCHANGED <<pipeline_vars, spider_vars, parse_vars, loop_vars, task_vars, ai_vars, client_vars, ollama_vars, pipe_vars, web_vars, queue_vars, store_vars>>

\* callable_tools["calculate_overall_score"](**tool.args)
CallOverallScore ==
    /\ score_call = "none"
    /\ scores # NoScores
    /\ score_call' = "calculate_overall_score"
    /\ score_result' = calculate_overall_score(scores)
    /\ UNCHANGED <<candidate_list, required_list, scores>>
    /\ UNCHANGED <<pipeline_vars, spider_vars, parse_vars, loop_vars, task_vars, ai_vars, client_vars, ollama_vars, pipe_vars, web_vars, queue_vars, store_vars>>

\* a value of a tool argument: an integer, or a JSON object
IntegerValue(n) == [type |-> "integer", value |-> n]

ObjectValue(n) == [type |-> "object", value |-> n]

EmptyDict == [k \in {} |-> IntegerValue(0)]

\* candidate_languages / job_languages as calculate_languages_score_function
\* declares them: an object whose one property 'languages' is an object of
\* proficiencies
DeclaredLanguageArgs ==
    {EmptyDict, [languages |-> ObjectValue(90)], [languages |-> ObjectValue(30)]}

\* the Dict[str, LanguageProficiency] of the signature
SignatureLanguageArgs ==
    {[english |-> IntegerValue(90)], [english |-> IntegerValue(30)],
     [german |-> IntegerValue(45)]}

LanguageArgs == DeclaredLanguageArgs \cup SignatureLanguageArgs

Abs(n) == IF n < 0 THEN -n ELSE n

RECURSIVE SumDiffs(_, _, _)
SumDiffs(c, j, keys) ==
    IF keys = {} THEN 0
    ELSE LET language == CHOOSE k \in keys : TRUE
         IN  (100 - Abs(c[language].value - j[language].value))
                 + SumDiffs(c, j, keys \ {language})

\* calculate_languages_score: for the keys both dicts have,
\* 100 - abs(candidate - job), summed and divided by the number of job keys
calculate_languages_score(candidate_languages, job_languages) ==
    LET common == DOMAIN candidate_languages \cap DOMAIN job_languages
    IN  IF \E language \in common :
               \/ candidate_languages[language].type # "integer"
               \/ job_languages[language].type # "integer"
        THEN Raises("TypeError")
        ELSE IF DOMAIN job_languages = {} THEN Returns(100, 1)
        ELSE Returns(SumDiffs(candidate_languages, job_languages, common),
                     Cardinality(DOMAIN job_languages))

\* callable_tools["calculate_languages_score"](**tool.args)
CallLanguagesScore(candidate_languages, job_languages) ==
    /\ score_call = "none"
    /\ scores = NoScores
    /\ candidate_list = << >>
    /\ required_list = << >>
    /\ score_call' = "calculate_languages_score"
    /\ score_result' = calculate_languages_score(candidate_languages, job_languages)
    /\ UNCHANGED <<candidate_list, required_list, scores>>
    /\ UNCHANGED <<pipeline_vars, spider_vars, parse_vars, loop_vars, task_vars, ai_vars, client_vars, ollama_vars, pipe_vars, web_vars, queue_vars, store_vars>>

\* background_aligns of a model answer goes through AlignmentScore
ValidateAlignmentScore ==
    /\ score_call = "none"
    /\ scores # NoScores
    /\ score_call' = "AlignmentScore"
    /\ score_result' = Validated(scores)
    /\ UNCHANGED <<candidate_list, required_list, scores>>
    /\ UNCHANGED <<pipeline_vars, spider_vars, parse_vars, loop_vars, task_vars, ai_vars, client_vars, ollama_vars, pipe_vars, web_vars, queue_vars, store_vars>>

ScoreNext ==
    \/ CallSkillsScore
    \/ CallIndustriesScore
    \/ CallOverallScore
    \/ \E c, j \in LanguageArgs : CallLanguagesScore(c, j)
    \/ ValidateAlignmentScore

ScoreSpec == InitScoreSpec /\ [][ScoreNext]_vars

\* every score of the dict is within 0 .. 100
WithinRange(d) == \A k \in DOMAIN d : d[k] \in 0 .. 100

\* C24: an AlignmentScore is accepted only with every component within
\* 0 .. 100, and calculate_overall_score called with a score outside
\* 0 .. 100 ends in an error instead of a value.
C24_ScoresWithinRange ==
    /\ (score_call = "AlignmentScore" /\ score_result.kind = "valid") =>
           WithinRange(scores)
    /\ (score_call = "calculate_overall_score" /\ ~WithinRange(scores)) =>
           score_result.kind = "raise"

\* C25: for six scores within 0 .. 100, calculate_overall_score returns the
\* weighted sum rounded to the nearest integer, an integer within 0 .. 100.
C25_OverallScoreRounded ==
    (score_call = "calculate_overall_score" /\ WeightKeys \subseteq DOMAIN scores
        /\ WithinRange(scores)) =>
        /\ score_result.kind = "return"
        /\ IsInteger(score_result)
        /\ Is(score_result, Round(WeightedSum(scores, WeightKeys), 100))
        /\ score_result.num >= 0
        /\ score_result.num <= 100 * score_result.den

\* C26: calculate_skills_score and calculate_industries_score return 100 for
\* an empty required list, and otherwise 100 times the fraction of the
\* required entries found in the candidate list, 0 for an empty candidate list.
C26_ScoreOfRequiredList ==
    score_call \in {"calculate_skills_score", "calculate_industries_score"} =>
        /\ required_list = << >> => Is(score_result, 100)
        /\ required_list # << >> =>
               /\ score_result.kind = "return"
               /\ score_result.num * Len(required_list) =
                      100 * Count(required_list, LAMBDA x : In(candidate_list, x))
                          * score_result.den
        /\ (required_list # << >> /\ candidate_list = << >>) => Is(score_result, 0)

\* ------------------------------------------- GoogleAIProvider, any calls
\* self.system_prompt, as SearchPipeline.__init__ sets it
SystemPrompt ==
    <<Line("You are an expert job search assistant"), Line(""),
      Line("NORMALIZED CANDIDATE PROFILE JSON"), Line(""),
      Line("INSTRUCTIONS:"), Padded("- Be concise and structured in responses")>>

\* [Part(text=l) for l in self.system_prompt.split("\n") if len(l.strip()) > 0]
RECURSIVE SystemParts(_)
SystemParts(text) ==
    IF text = << >> THEN << >>
    ELSE LET rest == SystemParts(Tail(text))
         IN  IF Strip(Head(text)) # "" THEN <<TextPart(<<Head(text)>>)>> \o rest ELSE rest

\* GoogleAIProvider._get_system_instructions
SystemInstructions == Content("system", SystemParts(SystemPrompt))

\* self.tools: the names of the six declarations
ToolManifest ==
    {"calculate_month_between", "calculate_overall_score", "calculate_skills_score",
     "calculate_experience_score", "calculate_industries_score",
     "calculate_languages_score"}

\* generate() passes no tools
NoTools == {}

\* a call that sends the system instruction as the head of the contents
RequestWithSystemInContents(contents, tools) ==
    [contents |-> <<SystemInstructions>> \o contents,
     system_instruction |-> NoRequest.system_instruction, tools |-> tools]

\* models.generate_content(contents=..., config=GenerateContentConfig(
\* system_instruction=self._get_system_instructions(), ...))
Request(contents, tools) ==
    [contents |-> contents, system_instruction |-> SystemInstructions, tools |-> tools]

\* the job of the prompt agent() is called with
ClientJob == CHOOSE j \in CrawledJobResult : j.complete

\* answers to a call of agent(): one tool call at most per answer
ClientAgentResponses == {TransportError} \cup TextResponses \cup ToolResponses(1)

\* clear_history()
clear_history ==
    /\ client_pc = "idle"
    /\ client_history' = ClearedHistory(client_history)
    /\ UNCHANGED <<client_pc, client_response, client_return, request, requests_made>>
    /\ UNCHANGED <<tools_set, callable_tools_set>>
    /\ UNCHANGED <<pipeline_vars, spider_vars, parse_vars, loop_vars, task_vars, ai_vars,
                   score_vars, ollama_vars, pipe_vars, web_vars, queue_vars, store_vars>>

\* generate(cover_letter_prompt, JobAiCoverLetter) with the provider's answer r
generate(r) ==
    /\ client_pc = "idle"
    /\ requests_made < MaxRequests
    /\ requests_made' = requests_made + 1
    /\ request' = Request(UpdateHistoryText(client_history, "user", CoverLetterPrompt), NoTools)
    /\ client_history' = GenerateHistory(client_history, CoverLetterPrompt, r)
    /\ client_return' = IF r = TransportError THEN "raised"
                        ELSE GenerateReturn(r, JobAiCoverLetter)
    /\ UNCHANGED <<client_pc, client_response>>
    /\ UNCHANGED <<tools_set, callable_tools_set>>
    /\ UNCHANGED <<pipeline_vars, spider_vars, parse_vars, loop_vars, task_vars, ai_vars,
                   score_vars, ollama_vars, pipe_vars, web_vars, queue_vars, store_vars>>

\* agent(), from a provider answer r to the contents h on
ClientAfterAnswer(h, r) ==
    IF r = TransportError
    THEN /\ client_history' = h
         /\ client_pc' = "idle"
         /\ client_return' = "raised"
         /\ client_response' = client_response
    ELSE /\ client_response' = r
         /\ IF UseTools(r) # << >>
            THEN /\ client_history' = h
                 /\ client_pc' = "tools"
                 /\ client_return' = client_return
            ELSE /\ client_history' = UpdateHistoryParts(h, "model", ResponseParts(r))
                 /\ IF Validates(r.text, JobAiSummary)
                    THEN /\ client_pc' = "idle"
                         /\ client_return' = ValidateAndDump(r.text, JobAiSummary)
                    ELSE /\ client_pc' = "regen"
                         /\ client_return' = client_return

\* if self.tools is None and self.callable_tools is None
ToolsRequired == ~tools_set /\ ~callable_tools_set

\* agent(job_summary_prompt, JobAiSummary) up to the provider's first answer
\* r, or the ValueError 'Tools are required for agent mode'; a provider that
\* was sent no tools answers with no function call
agent(r) ==
    /\ client_pc = "idle"
    /\ IF ToolsRequired
       THEN /\ client_return' = "raised"
            /\ UNCHANGED <<client_pc, client_history, client_response, request,
                           requests_made>>
       ELSE /\ requests_made < MaxRequests
            /\ tools_set \/ r \in GenerateResponses
            /\ requests_made' = requests_made + 1
            /\ LET h == UpdateHistoryText(client_history, "user",
                                          JobSummaryPrompt(ClientJob))
               IN  /\ request' = Request(h, IF tools_set THEN ToolManifest ELSE NoTools)
                   /\ ClientAfterAnswer(h, r)
    /\ UNCHANGED <<tools_set, callable_tools_set>>
    /\ UNCHANGED <<pipeline_vars, spider_vars, parse_vars, loop_vars, task_vars, ai_vars,
                   score_vars, ollama_vars, pipe_vars, web_vars, queue_vars, store_vars>>

\* agent(): a pass of the while loop in which a callable raises
agent_tools_raise ==
    /\ client_pc = "tools"
    /\ ~callable_tools_set \/ DispatchRaises(UseTools(client_response))
    /\ client_history' = UpdateHistoryParts(client_history, "model",
                                            ResponseParts(client_response))
    /\ client_pc' = "idle"
    /\ client_return' = "raised"
    /\ UNCHANGED <<client_response, request, requests_made>>
    /\ UNCHANGED <<tools_set, callable_tools_set>>
    /\ UNCHANGED <<pipeline_vars, spider_vars, parse_vars, loop_vars, task_vars, ai_vars,
                   score_vars, ollama_vars, pipe_vars, web_vars, queue_vars, store_vars>>

\* agent(): a pass of the while loop, up to the provider's next answer r
agent_tools(r) ==
    /\ client_pc = "tools"
    /\ callable_tools_set
    /\ ~DispatchRaises(UseTools(client_response))
    /\ requests_made < MaxRequests
    /\ requests_made' = requests_made + 1
    /\ LET h1 == UpdateHistoryParts(client_history, "model", ResponseParts(client_response))
           h2 == UpdateHistoryParts(h1, "function_response",
                    FunctionResponseParts(ToolsResponse(<< >>, UseTools(client_response))))
       IN  /\ request' = Request(h2, ToolManifest)
           /\ ClientAfterAnswer(h2, r)
    /\ UNCHANGED <<tools_set, callable_tools_set>>
    /\ UNCHANGED <<pipeline_vars, spider_vars, parse_vars, loop_vars, task_vars, ai_vars,
                   score_vars, ollama_vars, pipe_vars, web_vars, queue_vars, store_vars>>

\* agent(): the except branch, return self.generate("Regenerate ...", format)
agent_regenerate(r) ==
    /\ client_pc = "regen"
    /\ requests_made < MaxRequests
    /\ requests_made' = requests_made + 1
    /\ request' = Request(UpdateHistoryText(client_history, "user", RegeneratePrompt), NoTools)
    /\ client_history' = GenerateHistory(client_history, RegeneratePrompt, r)
    /\ client_return' = IF r = TransportError THEN "raised"
                        ELSE GenerateReturn(r, JobAiSummary)
    /\ client_pc' = "idle"
    /\ UNCHANGED client_response
    /\ UNCHANGED <<tools_set, callable_tools_set>>
    /\ UNCHANGED <<pipeline_vars, spider_vars, parse_vars, loop_vars, task_vars, ai_vars,
                   score_vars, ollama_vars, pipe_vars, web_vars, queue_vars, store_vars>>

ClientNext ==
    \/ clear_history
    \/ \E r \in GenerateResponses : generate(r)
    \/ \E r \in ClientAgentResponses : agent(r)
    \/ agent_tools_raise
    \/ \E r \in ClientAgentResponses : agent_tools(r)
    \/ \E r \in GenerateResponses : agent_regenerate(r)

ClientSpec == Init /\ [][ClientNext]_vars

\* a provider on which each of tools and callable_tools was assigned or not
InitAnyProvider ==
    /\ InitPipeline /\ InitSpider /\ InitParse /\ InitLoop /\ InitTask /\ InitAI /\ InitScore
    /\ InitOllama /\ InitPipe /\ InitWeb /\ InitQueue /\ InitStore
    /\ InitProvider
    /\ tools_set \in BOOLEAN
    /\ callable_tools_set \in BOOLEAN

ProviderSpec == InitAnyProvider /\ [][ClientNext]_vars

\* roles _update_history is called with
HistoryRoles == {"user", "model", "function_response"}

\* no entry of the list carries the system instruction
WithoutSystem(h) ==
    \A i \in 1 .. Len(h) :
        /\ h[i].role \in HistoryRoles
        /\ h[i].parts # SystemInstructions.parts

\* C27: whatever calls of clear_history, generate and agent were made, the
\* history holds entries of role user, model or function_response only and
\* not the system instruction, and every call made to the provider carried
\* the system instruction in its configuration, not in its contents.
C27_SystemNotInHistory ==
    /\ WithoutSystem(client_history)
    /\ requests_made > 0 =>
           /\ request.system_instruction = SystemInstructions
           /\ WithoutSystem(request.contents)
           /\ request.contents # << >>

\* the third call to the provider closed a round of tool calls of an agent
\* call that started on a history cleared after an earlier call, and the
\* agent call returned a job summary
C27_Witness ==
    /\ requests_made = 3
    /\ request.tools = ToolManifest
    /\ Len(request.contents) = 3
    /\ request.contents[1].parts = TextParts(JobSummaryPrompt(ClientJob))
    /\ request.contents[3].role = "function_response"
    /\ client_return = Document(JobAiSummary)

\* --------------------------------------------------------- OllamaProvider
\* names of models: on the server, or asked for in the configuration
ModelNames == {"llama3", "mistral"}

\* a request on the wire: client.list() with the models the server answered
\* (ok is FALSE when the request failed), client.generate(model=...)
ListRequest(ok, models) == [op |-> "list", ok |-> ok, models |-> models, model |-> ""]

GenerateRequest(model) == [op |-> "generate", ok |-> TRUE, models |-> {}, model |-> model]

\* a pre-flight that takes every model as listed
ModelAssumedListed(models, model) == TRUE

\* any([m.model == self.config.model for m in resp[1]])
ModelListed(models, model) == model \in models

\* OllamaProvider.__init__ with config.model, as it runs for a subclass that
\* supplies clear_history and agent: the class itself is abstract, see Construct
OllamaInit(model) ==
    /\ ollama_pc = "new"
    /\ ollama_pc' = "idle"
    /\ ollama_model' = model
    /\ UNCHANGED <<server_models, wire, ollama_return>>
    /\ UNCHANGED <<pipeline_vars, spider_vars, parse_vars, loop_vars, task_vars, ai_vars,
                   score_vars, client_vars, pipe_vars, web_vars, queue_vars, store_vars>>

\* the server's models change between two calls (ollama pull, ollama rm)
ServerModels(models) ==
    /\ ollama_pc = "idle"
    /\ server_models' = models
    /\ UNCHANGED <<ollama_pc, ollama_model, wire, ollama_return>>
    /\ UNCHANGED <<pipeline_vars, spider_vars, parse_vars, loop_vars, task_vars, ai_vars,
                   score_vars, client_vars, pipe_vars, web_vars, queue_vars, store_vars>>

\* OllamaProvider.generate(prompt, JobAiCoverLetter): list_ok is FALSE when
\* client.list() raises, r is the server's answer to client.generate
ollama_generate(list_ok, r) ==
    /\ ollama_pc = "idle"
    /\ Len(wire) < 2 * MaxGenerates
    /\ IF ~list_ok
       THEN /\ wire' = Append(wire, ListRequest(FALSE, {}))
            /\ ollama_return' = "ConnectionError"
       ELSE IF ~ModelListed(server_models, ollama_model)
       THEN /\ wire' = Append(wire, ListRequest(TRUE, server_models))
            /\ ollama_return' = "ValueError"
       ELSE /\ wire' = wire \o <<ListRequest(TRUE, server_models),
                                 GenerateRequest(ollama_model)>>
            /\ ollama_return' =
                   IF r = TransportError THEN "ResponseError"
                   ELSE IF Validates(r.text, JobAiCoverLetter)
                        THEN ValidateAndDump(r.text, JobAiCoverLetter)
                        ELSE "ValidationError"
    /\ UNCHANGED <<ollama_pc, ollama_model, server_models>>
    /\ UNCHANGED <<pipeline_vars, spider_vars, parse_vars, loop_vars, task_vars, ai_vars,
                   score_vars, client_vars, pipe_vars, web_vars, queue_vars, store_vars>>

OllamaNext ==
    \/ \E model \in ModelNames : OllamaInit(model)
    \/ \E models \in SUBSET ModelNames : ServerModels(models)
    \/ \E list_ok \in BOOLEAN, r \in GenerateResponses : ollama_generate(list_ok, r)

OllamaSpec == Init /\ [][OllamaNext]_vars

\* C28: every generate request on the wire comes right after a list request
\* whose answer holds the requested model, and a list request whose answer
\* lacks the model (or that failed) is followed by no generate request.
C28_PreflightBeforeGenerate ==
    \A i \in 1 .. Len(wire) :
        /\ wire[i].op = "generate" =>
               /\ i > 1
               /\ wire[i - 1].op = "list"
               /\ wire[i - 1].ok
               /\ wire[i].model = ollama_model
               /\ wire[i].model \in wire[i - 1].models
        /\ wire[i].op = "list" =>
               IF wire[i].ok /\ ollama_model \in wire[i].models
               THEN i < Len(wire) /\ wire[i + 1].op = "generate"
               ELSE i = Len(wire) \/ wire[i + 1].op = "list"

\* a call failed on a server without the model, and a later call, the model
\* being there, sent its generate request and returned a cover letter
C28_Witness ==
    /\ Len(wire) = 3
    /\ wire[1].op = "list" /\ wire[1].ok /\ ollama_model \notin wire[1].models
    /\ wire[3].op = "generate"
    /\ ollama_return = Document(JobAiCoverLetter)

\* ------------------------------------------------- the stages of one run
\* a call of the provider was made for a job of the run
EnrichmentStarted == history # << >> \/ jobs # << >> \/ error.stage = "enriching"

\* _crawl has returned its list
CrawlFinished == pc \notin {"submit", "pending", "rejected", "crawl"} /\ error.stage # "construct"

\* C29: the stages of a run follow one another: the provider is called only
\* once the crawl has returned, a POST is made only once every crawled job
\* has been enriched, and a run that failed while enriching has made no POST.
C29_StagesSequential ==
    /\ EnrichmentStarted => CrawlFinished
    /\ posts # << >> => (idx > Len(crawled) /\ Len(jobs) = Len(crawled))
    /\ pc \in {"deliver", "done"} => Len(jobs) = Len(crawled)
    /\ error.stage = "enriching" => posts = << >>

\* the run failed while enriching its second job, the first one being
\* enriched and not delivered
C29_Witness ==
    /\ pc = "failed"
    /\ error.stage = "enriching"
    /\ Len(jobs) = 1
    /\ idx = 2
    /\ posts = << >>

\* user entries of the history that carry the cover letter prompt
CoverPrompts(h) ==
    {i \in 1 .. Len(h) : h[i].role = "user" /\ h[i].parts = TextParts(CoverLetterPrompt)}

\* the job whose cover letter call was the last call of the provider
LastCovered == crawled[idx - 1]

\* C30: per job the client is cleared, then asked for the summary, then for
\* the cover letter: when the cover letter call is due the history starts
\* with the summary prompt of that job and holds no cover letter prompt, and
\* once the call has returned the history is that same conversation followed
\* by the cover letter prompt and the reply, with nothing of another job.
C30_CoverLetterOnSummaryHistory ==
    /\ pc = "cover" =>
           /\ history[1] = Content("user", TextParts(JobSummaryPrompt(crawled[idx])))
           /\ Len(history) >= 2
           /\ CoverPrompts(history) = {}
    /\ (pc = "loop" /\ idx > 1) =>
           /\ history[1] = Content("user", TextParts(JobSummaryPrompt(LastCovered)))
           /\ SummaryPrompts(history) = {1}
           /\ CoverPrompts(history) = {Len(history) - 1}
           /\ history[Len(history)].role = "model"
           /\ Len(history) >= 4

\* the cover letter of the second job has returned, after a summary
\* conversation with a round of tool calls
C30_Witness ==
    /\ pc = "loop"
    /\ Len(jobs) = 2
    /\ \E i \in 1 .. Len(history) : history[i].role = "function_response"
    /\ CoverPrompts(history) = {Len(history) - 1}

\* -------------------------------------------------------------- pagination
\* C31: a follow-up search request carries as start the offset of the page
\* just parsed plus the number of cards that page held, the cards consumed
\* so far, and so an offset above that of the page just parsed.
C31_OffsetAdvancesByCardsConsumed ==
    [][\A i \in QueueSlots, page \in SearchPages \ {EmptyBody} :
          ParseSearch(i, page) =>
              \A u \in SearchesSeen' \ SearchesSeen :
                  /\ u.start = scheduler[i].url.start + Len(page.cards)
                  /\ u.start > scheduler[i].url.start]_vars

\* ------------------------------------------------- main.py: tracked pipeline
\* PipelineTask of the one run: status, service1_task_id, service2_task_id.
\* Task ids: 0 is None, service 1 has id 1, the k-th continue_pipeline task has
\* id k.  The result backend holds per task "PENDING", "SUCCESS" or "FAILURE";
\* what a worker makes of a task is the environment of main.py.
OtherVars ==
    <<pipeline_vars, spider_vars, parse_vars, loop_vars, task_vars, ai_vars, score_vars,
      client_vars, ollama_vars, web_vars, queue_vars, store_vars>>

\* safe_get_task_result: the result when ready and successful, otherwise None
safe_get_task_result(state, backend_ok) ==
    backend_ok /\ state = "SUCCESS"

\* task_result.ready()
Ready(state) == state \in {"SUCCESS", "FAILURE"}

\* POST /api/pipeline: run_complete_pipeline.delay, pipeline_tasks[run_id],
\* asyncio.create_task(monitor_pipeline(run_id))
run_pipeline ==
    /\ pipeline_task = NoPipelineTask
    /\ pipeline_task' = [NoPipelineTask EXCEPT !.status = "started"]
    /\ pipeline_result' = "PENDING"
    /\ monitor_pc' = "pipeline"
    /\ UNCHANGED <<service1_result, continue_results, processor_results>>
    /\ UNCHANGED OtherVars

\* worker: run_complete_pipeline calls crawl_jobs.delay and returns
\* service1_started, or fails
PipelineTaskEnds(ok) ==
    /\ pipeline_result = "PENDING"
    /\ pipeline_result' = IF ok THEN "SUCCESS" ELSE "FAILURE"
    /\ service1_result' = IF ok THEN "PENDING" ELSE service1_result
    /\ UNCHANGED <<pipeline_task, continue_results, processor_results, monitor_pc>>
    /\ UNCHANGED OtherVars

\* worker: crawl_jobs ends
Service1Ends(ok) ==
    /\ service1_result = "PENDING"
    /\ service1_result' = IF ok THEN "SUCCESS" ELSE "FAILURE"
    /\ UNCHANGED <<pipeline_task, pipeline_result, continue_results, processor_results,
                   monitor_pc>>
    /\ UNCHANGED OtherVars

\* worker: the k-th continue_pipeline calls process_jobs_with_ai.delay and
\* returns service2_started, or fails
ContinueEnds(k, ok) ==
    /\ k \in DOMAIN continue_results
    /\ continue_results[k] = "PENDING"
    /\ continue_results' = [continue_results EXCEPT ![k] = IF ok THEN "SUCCESS" ELSE "FAILURE"]
    /\ processor_results' = [processor_results EXCEPT ![k] = IF ok THEN "PENDING" ELSE @]
    /\ UNCHANGED <<pipeline_task, pipeline_result, service1_result, monitor_pc>>
    /\ UNCHANGED OtherVars

\* worker: the process_jobs_with_ai task of the k-th continue_pipeline ends
ProcessorEnds(k, ok) ==
    /\ k \in DOMAIN processor_results
    /\ processor_results[k] = "PENDING"
    /\ processor_results' = [processor_results EXCEPT ![k] = IF ok THEN "SUCCESS" ELSE "FAILURE"]
    /\ UNCHANGED <<pipeline_task, pipeline_result, service1_result, continue_results,
                   monitor_pc>>
    /\ UNCHANGED OtherVars

\* continue_pipeline.delay(...): a new task, service2_task_id, service2_started
StartService2 ==
    /\ continue_results' = Append(continue_results, "PENDING")
    /\ processor_results' = Append(processor_results, "none")
    /\ pipeline_task' = [pipeline_task EXCEPT !.service2_task_id = Len(continue_results) + 1,
                                              !.status = "service2_started"]

\* monitor_pipeline: one poll of the loop it is in, between two
\* asyncio.sleep(1); backend_ok is false when reading the result raises
monitor_pipeline(backend_ok) ==
    /\ monitor_pc \in {"pipeline", "service1", "service2"}
    /\ UNCHANGED <<pipeline_result, service1_result>>
    /\ UNCHANGED OtherVars
    /\ CASE monitor_pc = "pipeline" ->
              /\ UNCHANGED <<continue_results, processor_results>>
              /\ IF safe_get_task_result(pipeline_result, backend_ok)
                 THEN /\ pipeline_task' = [pipeline_task EXCEPT !.service1_task_id = 1,
                                                                !.status = "service1_started"]
                      /\ monitor_pc' = "service1"
                 ELSE /\ pipeline_task' = pipeline_task
                      /\ monitor_pc' = IF ~backend_ok \/ Ready(pipeline_result)
                                       THEN "returned" ELSE monitor_pc
         [] monitor_pc = "service1" ->
              IF safe_get_task_result(service1_result, backend_ok)
              THEN /\ StartService2
                   /\ monitor_pc' = "service2"
              ELSE /\ UNCHANGED <<pipeline_task, continue_results, processor_results>>
                   /\ monitor_pc' = IF ~backend_ok \/ Ready(service1_result)
                                    THEN "returned" ELSE monitor_pc
         [] monitor_pc = "service2" ->
              /\ UNCHANGED <<continue_results, processor_results>>
              /\ IF safe_get_task_result(continue_results[pipeline_task.service2_task_id],
                                         backend_ok)
                 THEN /\ pipeline_task' = [pipeline_task EXCEPT !.status = "completed"]
                      /\ monitor_pc' = "returned"
                 ELSE /\ pipeline_task' = pipeline_task
                      /\ monitor_pc' =
                            IF ~backend_ok
                               \/ Ready(continue_results[pipeline_task.service2_task_id])
                            THEN "returned" ELSE monitor_pc

\* check_and_continue_pipeline(run_id); an exception is printed and dropped
check_and_continue_pipeline(backend_ok) ==
    /\ UNCHANGED <<pipeline_result, service1_result, monitor_pc>>
    /\ IF pipeline_task.service1_task_id # 0 /\ pipeline_task.service2_task_id = 0
       THEN IF safe_get_task_result(service1_result, backend_ok)
            THEN StartService2
            ELSE /\ UNCHANGED <<continue_results, processor_results>>
                 /\ pipeline_task' =
                       IF backend_ok /\ Ready(service1_result)
                       THEN [pipeline_task EXCEPT !.status = "service1_failed"]
                       ELSE pipeline_task
       ELSE /\ UNCHANGED <<continue_results, processor_results>>
            /\ IF pipeline_task.service2_task_id # 0
               THEN IF safe_get_task_result(continue_results[pipeline_task.service2_task_id],
                                            backend_ok)
                    THEN pipeline_task' = [pipeline_task EXCEPT !.status = "completed"]
                    ELSE pipeline_task' =
                            IF backend_ok
                               /\ Ready(continue_results[pipeline_task.service2_task_id])
                            THEN [pipeline_task EXCEPT !.status = "service2_failed"]
                            ELSE pipeline_task
               ELSE pipeline_task' = pipeline_task

\* GET /api/pipeline/{run_id}/status of a run in pipeline_tasks
get_pipeline_status(backend_ok) ==
    /\ pipeline_task # NoPipelineTask
    /\ check_and_continue_pipeline(backend_ok)
    /\ UNCHANGED OtherVars

PipeNext ==
    \/ run_pipeline
    \/ \E ok \in BOOLEAN : PipelineTaskEnds(ok)
    \/ \E ok \in BOOLEAN : Service1Ends(ok)
    \/ \E k \in 1..2, ok \in BOOLEAN : ContinueEnds(k, ok)
    \/ \E k \in 1..2, ok \in BOOLEAN : ProcessorEnds(k, ok)
    \/ \E backend_ok \in BOOLEAN : monitor_pipeline(backend_ok)
    \/ \E backend_ok \in BOOLEAN : get_pipeline_status(backend_ok)

PipeSpec == Init /\ [][PipeNext]_vars

TerminalStatuses == {"completed", "service1_failed", "service2_failed"}

\* every Celery task of the run has ended and the monitor has returned
RunSettled ==
    /\ monitor_pc = "returned"
    /\ pipeline_result # "PENDING"
    /\ service1_result # "PENDING"
    /\ \A k \in DOMAIN continue_results : continue_results[k] # "PENDING"
    /\ \A k \in DOMAIN processor_results : processor_results[k] # "PENDING"

Service2Result ==
    IF pipeline_task.service2_task_id = 0 THEN "none"
    ELSE processor_results[pipeline_task.service2_task_id]

MaxWorkflows == 2

WebOtherVars ==
    <<pipeline_vars, spider_vars, parse_vars, loop_vars, task_vars, ai_vars, score_vars,
      client_vars, ollama_vars, pipe_vars, queue_vars, store_vars>>

WebResponse(code, served, total) == [code |-> code, jobs |-> served, total |-> total]

\* threads that have been started and have not left run_scrapy_spider
RunningWorkflows == {t \in DOMAIN workflows : workflows[t] # "done"}

\* the guard of start_workflow
AlreadyRunning == crawling_status.is_running

\* POST /api/start-workflow: 400, 409 or a new thread on run_scrapy_spider
start_workflow(keywords, location) ==
    /\ Len(workflows) < MaxWorkflows
    /\ UNCHANGED <<crawling_status>>
    /\ UNCHANGED WebOtherVars
    /\ IF keywords = "" \/ location = ""
       THEN /\ web_response' = WebResponse(400, 0, 0)
            /\ UNCHANGED workflows
       ELSE IF AlreadyRunning
            THEN /\ web_response' = WebResponse(409, 0, 0)
                 /\ UNCHANGED workflows
            ELSE /\ workflows' = Append(workflows, "started")
                 /\ web_response' = WebResponse(200, 0, 0)

\* run_scrapy_spider: the first crawling_status.update, then the subprocess
SpiderStarts(t) ==
    /\ t \in DOMAIN workflows
    /\ workflows[t] = "started"
    /\ crawling_status' = [crawling_status EXCEPT !.is_running = TRUE, !.jobs_found = 0,
                                                  !.current_stage = "searching",
                                                  !.pipeline_stage = 1]
    /\ workflows' = [workflows EXCEPT ![t] = "crawling"]
    /\ UNCHANGED web_response
    /\ UNCHANGED WebOtherVars

\* run_scrapy_spider: the subprocess has ended with return code 0 or not
SpiderEnds(t, ok) ==
    /\ t \in DOMAIN workflows
    /\ workflows[t] = "crawling"
    /\ IF ok
       THEN /\ crawling_status' = [crawling_status EXCEPT !.is_running = TRUE,
                                                          !.current_stage = "completed",
                                                          !.pipeline_stage = 1]
            /\ workflows' = [workflows EXCEPT ![t] = "pipeline"]
       ELSE /\ crawling_status' = [crawling_status EXCEPT !.is_running = FALSE,
                                                          !.current_stage = "error"]
            /\ workflows' = [workflows EXCEPT ![t] = "done"]
    /\ UNCHANGED web_response
    /\ UNCHANGED WebOtherVars

\* process_pipeline_steps up to the call of process_jobs_with_ai: new_jobs
\* jobs were gathered
GatherJobs(t, new_jobs) ==
    /\ t \in DOMAIN workflows
    /\ workflows[t] = "pipeline"
    /\ IF new_jobs = 0
       THEN /\ crawling_status' = [crawling_status EXCEPT !.pipeline_stage = 2,
                                                          !.is_running = FALSE,
                                                          !.current_stage = "completed"]
            /\ workflows' = [workflows EXCEPT ![t] = "done"]
       ELSE /\ crawling_status' = [crawling_status EXCEPT !.jobs_found = new_jobs,
                                                          !.pipeline_stage = 3]
            /\ workflows' = [workflows EXCEPT ![t] = "ai"]
    /\ UNCHANGED web_response
    /\ UNCHANGED WebOtherVars

\* the 'results' the pipeline of workflow t stores when it completes
StoredResults(t) == t

\* process_pipeline_steps from process_jobs_with_ai on: tiles stored, or the
\* except branch
FinishPipeline(t, ok) ==
    /\ t \in DOMAIN workflows
    /\ workflows[t] = "ai"
    /\ crawling_status' =
          IF ok
          THEN [crawling_status EXCEPT !.is_running = FALSE, !.current_stage = "completed",
                                       !.pipeline_stage = 4, !.results = StoredResults(t)]
          ELSE [crawling_status EXCEPT !.is_running = FALSE, !.current_stage = "error"]
    /\ workflows' = [workflows EXCEPT ![t] = "done"]
    /\ UNCHANGED web_response
    /\ UNCHANGED WebOtherVars

\* GET /api/workflow-results
get_workflow_results ==
    /\ web_response' =
          IF crawling_status.current_stage = "completed" /\ crawling_status.results # 0
          THEN WebResponse(200, crawling_status.results, crawling_status.jobs_found)
          ELSE WebResponse(404, 0, 0)
    /\ UNCHANGED <<crawling_status, workflows>>
    /\ UNCHANGED WebOtherVars

\* POST /api/reset-workflow: crawling_status is bound to a new dict
reset_workflow ==
    /\ crawling_status' = IdleStatus
    /\ web_response' = WebResponse(200, 0, 0)
    /\ UNCHANGED workflows
    /\ UNCHANGED WebOtherVars

WebNext ==
    \/ \E keywords, location \in {"", "python"} : start_workflow(keywords, location)
    \/ \E t \in 1..(MaxWorkflows + 1) : SpiderStarts(t)
    \/ \E t \in 1..(MaxWorkflows + 1), ok \in BOOLEAN : SpiderEnds(t, ok)
    \/ \E t \in 1..(MaxWorkflows + 1), new_jobs \in 0..1 : GatherJobs(t, new_jobs)
    \/ \E t \in 1..(MaxWorkflows + 1), ok \in BOOLEAN : FinishPipeline(t, ok)
    \/ get_workflow_results
    \/ reset_workflow

WebSpec == Init /\ [][WebNext]_vars

\* C35: at most one workflow thread runs at any time, whatever the
\* interleaving of start_workflow and reset_workflow requests with a running
\* workflow thread.
C35_OneWorkflowAtATime ==
    Cardinality(RunningWorkflows) <= 1

\* C39: what GET /api/workflow-results serves is the results of the workflow
\* started last; the results of an earlier workflow are not served once a
\* new workflow has been started.
C39_ResultsOfLatestWorkflow ==
    [][get_workflow_results /\ web_response'.code = 200
          => web_response'.jobs = StoredResults(Len(workflows))]_vars

\* ------------------------------------- docker services: polling task_queue
MaxTasks == 2

QueueOtherVars ==
    <<pipeline_vars, spider_vars, parse_vars, loop_vars, task_vars, ai_vars, score_vars,
      client_vars, ollama_vars, pipe_vars, web_vars, store_vars>>

\* INSERT INTO task_queue (run_id, service_name): a row with status 'pending'
create_next_task ==
    /\ Len(task_queue) < MaxTasks
    /\ task_queue' = Append(task_queue, "pending")
    /\ executions' = Append(executions, 0)
    /\ UNCHANGED <<poller_pc, poller_task>>
    /\ UNCHANGED QueueOtherVars

\* rows locked by a SELECT ... FOR UPDATE whose connection is still open
LockedRows == {poller_task[w] : w \in {v \in Pollers : poller_pc[v] = "selected"}}

\* WHERE status = 'pending' ORDER BY created_at ASC LIMIT 1 FOR UPDATE SKIP LOCKED
PendingRows == {t \in DOMAIN task_queue : task_queue[t] = "pending"} \ LockedRows

OldestPending ==
    IF PendingRows = {} THEN 0
    ELSE CHOOSE t \in PendingRows : \A u \in PendingRows : t <= u

\* get_pending_task: the SELECT; the row lock lives as long as the connection
SelectPending(w, db_ok) ==
    /\ poller_pc[w] = "poll"
    /\ IF db_ok /\ OldestPending # 0
       THEN /\ poller_pc' = [poller_pc EXCEPT ![w] = "selected"]
            /\ poller_task' = [poller_task EXCEPT ![w] = OldestPending]
       ELSE UNCHANGED <<poller_pc, poller_task>>
    /\ UNCHANGED <<task_queue, executions>>
    /\ UNCHANGED QueueOtherVars

\* get_pending_task: cursor.close(), conn.close() and the return of the row;
\* closing the connection ends the transaction and frees the lock
get_pending_task(w) ==
    /\ poller_pc[w] = "selected"
    /\ poller_pc' = [poller_pc EXCEPT ![w] = "got"]
    /\ UNCHANGED <<task_queue, poller_task, executions>>
    /\ UNCHANGED QueueOtherVars

\* the rows that UPDATE task_queue SET status = 'processing' WHERE id = %s
\* changes
MarkedRows(task_id) == {task_id}

\* process_task up to mark_task_started: the row is set to 'processing' in a
\* new connection, or the connection fails and process_task returns False
mark_task_started(w, db_ok) ==
    /\ poller_pc[w] = "got"
    /\ IF db_ok
       THEN /\ task_queue' = [t \in DOMAIN task_queue |->
                                 IF t \in MarkedRows(poller_task[w]) THEN "processing"
                                 ELSE task_queue[t]]
            /\ executions' = [executions EXCEPT ![poller_task[w]] = @ + 1]
            /\ poller_pc' = [poller_pc EXCEPT ![w] = "processing"]
            /\ UNCHANGED poller_task
       ELSE /\ poller_pc' = [poller_pc EXCEPT ![w] = "poll"]
            /\ poller_task' = [poller_task EXCEPT ![w] = 0]
            /\ UNCHANGED <<task_queue, executions>>
    /\ UNCHANGED QueueOtherVars

\* process_task after mark_task_started: the work, then mark_task_completed
\* when it succeeded
process_task(w, success) ==
    /\ poller_pc[w] = "processing"
    /\ task_queue' = IF success THEN [task_queue EXCEPT ![poller_task[w]] = "completed"]
                     ELSE task_queue
    /\ poller_pc' = [poller_pc EXCEPT ![w] = "poll"]
    /\ poller_task' = [poller_task EXCEPT ![w] = 0]
    /\ UNCHANGED executions
    /\ UNCHANGED QueueOtherVars

QueueNext ==
    \/ create_next_task
    \/ \E w \in Pollers, db_ok \in BOOLEAN : SelectPending(w, db_ok)
    \/ \E w \in Pollers : get_pending_task(w)
    \/ \E w \in Pollers, db_ok \in BOOLEAN : mark_task_started(w, db_ok)
    \/ \E w \in Pollers, success \in BOOLEAN : process_task(w, success)

QueueSpec == Init /\ [][QueueNext]_vars

\* C36: with two or more pollers of a service, the work of process_task is
\* done at most once for each task_queue row.
C36_TaskProcessedOnce ==
    \A t \in DOMAIN executions : executions[t] <= 1

\* ------------------------------------------------ tools called as declared
\* C37: a tool called with arguments of the shape its declaration gives
\* returns a result: calculate_overall_score with the declared properties
\* of scores, calculate_languages_score with the declared objects,
\* calculate_skills_score and calculate_industries_score with two arrays of
\* strings.
C37_DeclaredCallReturns ==
    [][/\ \A c, j \in DeclaredLanguageArgs :
             CallLanguagesScore(c, j) => score_result'.kind = "return"
       /\ (CallOverallScore /\ DOMAIN scores = DeclaredKeys) =>
             score_result'.kind = "return"
       /\ (CallSkillsScore \/ CallIndustriesScore) =>
             score_result'.kind = "return"]_vars

\* ------------------------------------------------------- agent without tools
\* C38: agent() on a client on which tools or callable_tools is unset ends
\* with the ValueError, makes no call to the provider and leaves the
\* history as it was.
C38_AgentWithoutToolsFails ==
    [][\A r \in ClientAgentResponses :
          (agent(r) /\ (~tools_set \/ ~callable_tools_set)) =>
              /\ client_return' = "raised"
              /\ requests_made' = requests_made
              /\ request' = request
              /\ client_history' = client_history]_vars

\* ------------------------------------------ item pipelines: storing the jobs
MaxItems == 3

StoreOtherVars ==
    <<pipeline_vars, spider_vars, parse_vars, loop_vars, task_vars, ai_vars, score_vars,
      client_vars, ollama_vars, pipe_vars, web_vars, queue_vars>>

\* the job_id and the other columns of an item
ItemJobIds == {"4001", "4002"}

ItemTitles == {"engineer", "senior engineer"}

Items == [job_id : ItemJobIds, job_title : ItemTitles]

\* the rows of the table with the job_id
RowsOf(job_id) == SelectSeq(jobs_table, LAMBDA row : row.job_id = job_id)

\* a pipeline that takes every item for a new one
NeverStored(job_id) == FALSE

\* SELECT 1 FROM jobs WHERE job_id = %s ... if self.cursor.fetchone()
AlreadyStored(job_id) == RowsOf(job_id) # << >>

\* process_item(item, spider): the SELECT, then the INSERT and the commit
\* unless the job_id is stored; db_ok is false when the database refuses
\* the statement, and the error leaves process_item
process_item(item, db_ok) ==
    /\ Len(accepted) < MaxItems
    /\ job_ids_seen' = job_ids_seen \cup {item.job_id}
    /\ IF ~db_ok
       THEN /\ item_outcome' = "raised"
            /\ UNCHANGED <<jobs_table, accepted>>
       ELSE /\ item_outcome' = "returned"
            /\ accepted' = Append(accepted, item)
            /\ jobs_table' = IF AlreadyStored(item.job_id) THEN jobs_table
                             ELSE Append(jobs_table, item)
    /\ UNCHANGED StoreOtherVars

StoreNext == \E item \in Items, db_ok \in BOOLEAN : process_item(item, db_ok)

StoreSpec == Init /\ [][StoreNext]_vars

FirstAccepted(job_id) ==
    LET with_id == SelectSeq(accepted, LAMBDA item : item.job_id = job_id)
    IN  Head(with_id)

====
